---- MODULE Spec2Model ----
(***************************************************************************)
(* Bedrock Server Manager dashboard cards (Home Assistant custom cards).   *)
(* One card instance is modelled at a time (`card`): its reactive fields,  *)
(* the host object `hass` it is handed by Home Assistant, and the remote   *)
(* calls it has awaiting completion (`pending`).  Every handler of a card  *)
(* is one action; an async handler is one action per segment between its   *)
(* awaits.  User handlers are guarded by what render() shows and enables.  *)
(***************************************************************************)
EXTENDS Integers, Sequences, FiniteSets, TLC

VARIABLES
  card,                 \* which custom element this instance is
  hass,                 \* this.__hass, the last host object handed to the card
  selected,             \* the selected sensor entity id (None when null)
  _isLoading,
  _error,
  _feedback,
  pending,              \* remote calls awaiting completion, oldest first
  _currentProperties,   \* properties card: baseline
  _editValues,          \* properties card: staged edits
  _currentServerPermissions,  \* permissions card: baseline
  _editData,                  \* permissions card: staged levels by XUID
  _globalPlayers,
  _newPlayerSelectedXUID,
  _newPlayerManualXUID,
  _newPlayerManualName,
  _newPlayerPermissionLevel,
  _currentAllowlist,    \* allowlist card: baseline
  _newPlayerName,       \* allowlist card: the name typed into the add field
  _addIgnoresLimit,
  _serverDisplayName,   \* restore card
  _backupType,
  _availableBackups,
  _selectedBackupFile,
  _targetDeviceId,      \* restore card: the device id resolved at ingestion
  config,               \* content card: the card configuration
  _selectedTargetServerDeviceId,
  _installType,
  _availableFilesForInstall,
  _selectedFileToInstall,
  _selectedDeviceId,    \* command card: the device picked in the selector
  _commandText,
  _eventName,           \* event trigger card
  _eventPayload

propsVars == <<_currentProperties, _editValues>>
permVars == <<_currentServerPermissions, _editData, _globalPlayers, _newPlayerSelectedXUID,
              _newPlayerManualXUID, _newPlayerManualName, _newPlayerPermissionLevel>>
allowVars == <<_currentAllowlist, _newPlayerName, _addIgnoresLimit>>
restoreVars ==
  <<_serverDisplayName, _backupType, _availableBackups, _selectedBackupFile, _targetDeviceId>>
contentVars ==
  <<config, _selectedTargetServerDeviceId, _installType, _availableFilesForInstall,
    _selectedFileToInstall>>
commandVars == <<_selectedDeviceId, _commandText>>
eventVars == <<_eventName, _eventPayload>>
vars ==
  <<card, hass, selected, _isLoading, _error, _feedback, pending, propsVars, permVars, allowVars,
    restoreVars, contentVars, commandVars, eventVars>>
\* the fields of the other cards, which a card never touches
notProps == <<permVars, allowVars, restoreVars, contentVars, commandVars, eventVars>>
notPerm == <<propsVars, allowVars, restoreVars, contentVars, commandVars, eventVars>>
notAllow == <<propsVars, permVars, restoreVars, contentVars, commandVars, eventVars>>
notRestore == <<propsVars, permVars, allowVars, contentVars, commandVars, eventVars>>
notContent == <<propsVars, permVars, allowVars, restoreVars, commandVars, eventVars>>
\* the command card and the event trigger card keep their configuration in
\* `config` as the content card does
contentFields ==
  <<_selectedTargetServerDeviceId, _installType, _availableFilesForInstall,
    _selectedFileToInstall>>
notCommand ==
  <<selected, propsVars, permVars, allowVars, restoreVars, contentFields, eventVars>>
notEvent ==
  <<selected, propsVars, permVars, allowVars, restoreVars, contentFields, commandVars>>

(***************************************************************************)
(* Bounds of the model.                                                    *)
(***************************************************************************)
\* Remote calls one card may have in flight in the model.
MaxInFlight == 2

(***************************************************************************)
(* JavaScript values.  A string is the sequence of its pieces (single      *)
(* characters wherever the code looks inside the string), an object the    *)
(* sequence of its own properties in insertion order, an array the         *)
(* sequence of its items.  undefined and null are both Null: the code      *)
(* tests them together (??, ?., truthiness).                               *)
(***************************************************************************)
Val(t, s, n, o) == [t |-> t, s |-> s, n |-> n, o |-> o]
Null == Val("null", <<>>, 0, <<>>)
Str(s) == Val("str", s, 0, <<>>)
Num(n) == Val("num", <<>>, n, <<>>)
Bool(b) == Val("bool", <<>>, IF b THEN 1 ELSE 0, <<>>)
Obj(props) == Val("obj", <<>>, 0, props)
Arr(items) == Val("arr", <<>>, 0, items)
\* A property key is the sequence of the pieces of its name: a name the code
\* writes literally is one piece, a computed key (an XUID) its characters.
Prop(k, v) == [k |-> <<k>>, v |-> v]
KeyedProp(key, v) == [k |-> key, v |-> v]

IsStr(v) == v.t = "str"

\* String.prototype.trim on a character sequence
RECURSIVE TrimLeft(_)
TrimLeft(s) == IF s # <<>> /\ Head(s) = " " THEN TrimLeft(Tail(s)) ELSE s
RECURSIVE TrimRight(_)
TrimRight(s) ==
  IF s # <<>> /\ s[Len(s)] = " " THEN TrimRight(SubSeq(s, 1, Len(s) - 1)) ELSE s
Trim(s) == TrimRight(TrimLeft(s))

\* decimal digits of a non-negative integer
Digit == <<"0", "1", "2", "3", "4", "5", "6", "7", "8", "9">>
RECURSIVE NumStr(_)
NumStr(n) ==
  IF n < 10 THEN <<Digit[n + 1]>> ELSE NumStr(n \div 10) \o <<Digit[(n % 10) + 1]>>

\* String(v)
JsString(v) ==
  CASE v.t = "str" -> v.s
    [] v.t = "num" -> NumStr(v.n)
    [] v.t = "bool" -> IF v.n = 1 THEN <<"t", "r", "u", "e">> ELSE <<"f", "a", "l", "s", "e">>
    [] v.t = "null" -> <<"n", "u", "l", "l">>
    [] v.t = "arr" -> <<"[array]">>
    [] OTHER -> <<"[object Object]">>

\* v ?? d
Coalesce(v, d) == IF v.t = "null" THEN d ELSE v

\* JavaScript truthiness
Truthy(v) ==
  CASE v.t = "null" -> FALSE
    [] v.t = "str" -> v.s # <<>>
    [] v.t = "num" -> v.n # 0
    [] v.t = "bool" -> v.n = 1
    [] OTHER -> TRUE

\* key in obj, obj[key], { ...obj, [key]: v } on an object's property list
HasKey(props, key) == \E i \in 1..Len(props) : props[i].k = key
GetKey(props, key) ==
  IF HasKey(props, key)
    THEN props[CHOOSE i \in 1..Len(props) : props[i].k = key].v
    ELSE Null
SetKey(props, key, v) ==
  IF HasKey(props, key)
    THEN [i \in 1..Len(props) |-> IF props[i].k = key THEN KeyedProp(key, v) ELSE props[i]]
    ELSE Append(props, KeyedProp(key, v))
\* the same for a literally named property
HasOwn(props, k) == HasKey(props, <<k>>)
GetOwn(props, k) == GetKey(props, <<k>>)
SetOwn(props, k, v) == SetKey(props, <<k>>, v)
\* { ...a, ...b }
RECURSIVE Spread(_, _)
Spread(a, b) == IF b = <<>> THEN a ELSE Spread(SetKey(a, Head(b).k, Head(b).v), Tail(b))

\* v?.[k] on a value that may not be an object
Member(v, k) == IF v.t = "obj" THEN GetOwn(v.o, k) ELSE Null

\* JSON.stringify, as the sequence of the characters and key tokens it writes
RECURSIVE Stringify(_)
RECURSIVE StringifyProps(_)
RECURSIVE StringifyItems(_)
Stringify(v) ==
  CASE v.t = "null" -> <<"n", "u", "l", "l">>
    [] v.t = "str" -> <<"\"">> \o v.s \o <<"\"">>
    [] v.t = "num" -> NumStr(v.n)
    [] v.t = "bool" -> JsString(v)
    [] v.t = "arr" -> <<"[">> \o StringifyItems(v.o) \o <<"]">>
    [] OTHER -> <<"{">> \o StringifyProps(v.o) \o <<"}">>
StringifyProps(props) ==
  IF props = <<>> THEN <<>>
  ELSE <<"\"">> \o Head(props).k \o <<"\"", ":">> \o Stringify(Head(props).v)
       \o (IF Len(props) > 1 THEN <<",">> ELSE <<>>) \o StringifyProps(Tail(props))
StringifyItems(items) ==
  IF items = <<>> THEN <<>>
  ELSE Stringify(Head(items))
       \o (IF Len(items) > 1 THEN <<",">> ELSE <<>>) \o StringifyItems(Tail(items))

(***************************************************************************)
(* String and array operations.  Strings the code looks inside are         *)
(* sequences of one-character strings.                                     *)
(***************************************************************************)
UpperCaseLetters == <<"A", "B", "C", "D", "E", "F", "G", "H", "I", "J", "K", "L", "M", "N", "O", "P", "Q", "R", "S", "T", "U", "V", "W", "X", "Y", "Z">>
LowerCaseLetters == <<"a", "b", "c", "d", "e", "f", "g", "h", "i", "j", "k", "l", "m", "n", "o", "p", "q", "r", "s", "t", "u", "v", "w", "x", "y", "z">>
\* UTF-16 code unit order of the characters used
CodeUnitOrder == <<" ", "'", ".">> \o <<"0", "1", "2", "3", "4", "5", "6", "7", "8", "9">> \o <<":">> \o UpperCaseLetters \o <<"_">> \o LowerCaseLetters
IndexIn(c, letters) ==
  IF \E i \in 1..Len(letters) : letters[i] = c
    THEN CHOOSE i \in 1..Len(letters) : letters[i] = c
    ELSE 0
\* String.prototype.toLowerCase / toUpperCase
ToLowerCase(chars) ==
  [i \in 1..Len(chars) |->
     IF IndexIn(chars[i], UpperCaseLetters) > 0
       THEN LowerCaseLetters[IndexIn(chars[i], UpperCaseLetters)] ELSE chars[i]]
ToUpperCase(chars) ==
  [i \in 1..Len(chars) |->
     IF IndexIn(chars[i], LowerCaseLetters) > 0
       THEN UpperCaseLetters[IndexIn(chars[i], LowerCaseLetters)] ELSE chars[i]]
\* type.charAt(0).toUpperCase() + type.slice(1)
Capitalize(chars) ==
  IF chars = <<>> THEN <<>> ELSE ToUpperCase(<<Head(chars)>>) \o Tail(chars)
\* String.prototype.includes / endsWith
Includes(chars, part) ==
  \E i \in 0..(Len(chars) - Len(part)) : SubSeq(chars, i + 1, i + Len(part)) = part
EndsWith(chars, suffix) ==
  Len(chars) >= Len(suffix) /\ SubSeq(chars, Len(chars) - Len(suffix) + 1, Len(chars)) = suffix
\* chars.slice(0, -n)
DropLast(chars, n) == SubSeq(chars, 1, Len(chars) - n)
\* a < b by code units (for the lower-case letters and digits of the file
\* names used here localeCompare orders the same way)
RECURSIVE Before(_, _)
Before(a, b) ==
  IF b = <<>> THEN FALSE
  ELSE IF a = <<>> THEN TRUE
  ELSE IF Head(a) # Head(b) THEN IndexIn(Head(a), CodeUnitOrder) < IndexIn(Head(b), CodeUnitOrder)
  ELSE Before(Tail(a), Tail(b))
\* Array.prototype.sort over strings: ascending, and descending for
\* (a, b) => b.localeCompare(a)
RECURSIVE InsertSorted(_, _, _)
InsertSorted(item, sorted, descending) ==
  IF sorted = <<>> THEN <<item>>
  ELSE IF (IF descending THEN Before(Head(sorted).s, item.s) ELSE Before(item.s, Head(sorted).s))
    THEN <<item>> \o sorted
  ELSE <<Head(sorted)>> \o InsertSorted(item, Tail(sorted), descending)
RECURSIVE Sort(_, _)
Sort(items, descending) ==
  IF items = <<>> THEN <<>>
  ELSE InsertSorted(items[Len(items)], Sort(SubSeq(items, 1, Len(items) - 1), descending), descending)
\* Array.prototype.join
RECURSIVE Join(_, _)
Join(names, separator) ==
  IF names = <<>> THEN <<>>
  ELSE IF Len(names) = 1 THEN names
  ELSE <<Head(names), separator>> \o Join(Tail(names), separator)
\* item => item && typeof item === 'string' && item.trim() !== ''
IsFileName(item) == Truthy(item) /\ IsStr(item) /\ Trim(item.s) # <<>>
\* entityId.split('.').pop() for the entity ids used
ObjectId(entityId) ==
  CASE entityId = "sensor.a" -> <<"a">>
    [] entityId = "sensor.b" -> <<"b">>
    [] OTHER -> <<>>
\* the first candidate key whose attribute passes the test, "" when none does
RECURSIVE FirstCandidate(_, _, _)
FirstCandidate(attributes, candidates, needNonEmpty) ==
  IF candidates = <<>> THEN ""
  ELSE LET value == GetOwn(attributes.o, Head(candidates))
       IN IF value.t = "arr" /\ (needNonEmpty => Len(value.o) > 0)
            THEN Head(candidates)
            ELSE FirstCandidate(attributes, Tail(candidates), needNonEmpty)

(***************************************************************************)
(* The host object.  hass.states maps an entity id to its state object (or *)
(* to none), hass.entities holds the entity registry's device id.          *)
(***************************************************************************)
None == "none"
Entities == {"sensor.a", "sensor.b"}

\* `rev` tells two state objects with the same content apart (object identity)
StateObj(e, attrs, rev) == [entity_id |-> e, attributes |-> attrs, rev |-> rev]
Absent == StateObj(None, Null, 0)
NoHass == [defined |-> FALSE,
           states |-> [e \in Entities |-> Absent],
           entities |-> [e \in Entities |-> Null]]
Hass(st, reg) == [defined |-> TRUE, states |-> st, entities |-> reg]

\* hass?.states[e]
StateOf(h, e) == IF h.defined /\ e \in DOMAIN h.states THEN h.states[e] ELSE Absent
\* hass.entities?.[e]?.device_id
RegistryDeviceId(h, e) == IF h.defined /\ e \in DOMAIN h.entities THEN h.entities[e] ELSE Null

\* device ids the registry and the device_id attribute may carry
RegDeviceIds == {Null, Str(<<" ", " ">>), Str(<<" ", "r", "1", " ">>)}
AttrDeviceIds == {Null, Num(7), Str(<<"a", "1">>)}

NoMsg == <<>>

\* _error / _feedback hold a message (the sequence of its pieces) or nothing
IsSet(msg) == msg # NoMsg

\* what a rejected hass.callService / hass.callWS promise carries
ErrorObject(message) == Val("error", message, 0, <<>>)
RemoteFailures == {ErrorObject(<<"b", "o", "o", "m">>), Obj(<<>>)}

\* One remote call awaiting completion.  `sel` is the selection the call was
\* invoked under and `keep` what the awaiting handler holds in its locals.
Call(kind, service, data, feedback, keep) ==
  [kind |-> kind, service |-> service, data |-> data, feedback |-> feedback,
   keep |-> keep, sel |-> selected]

\* the pending calls without the i-th
Without(calls, i) == SubSeq(calls, 1, i - 1) \o SubSeq(calls, i + 1, Len(calls))

\* the fields of the cards as their constructors leave them
PropsConstructed == _currentProperties = <<>> /\ _editValues = <<>>
PermConstructed ==
  /\ _currentServerPermissions = <<>>
  /\ _editData = <<>>
  /\ _globalPlayers = <<>>
  /\ _newPlayerSelectedXUID = <<>>
  /\ _newPlayerManualXUID = <<>>
  /\ _newPlayerManualName = <<>>
  /\ _newPlayerPermissionLevel = <<"visitor">>
AllowConstructed ==
  /\ _currentAllowlist = <<>>
  /\ _newPlayerName = <<>>
  /\ _addIgnoresLimit = FALSE
RestoreConstructed ==
  /\ _serverDisplayName = Null
  /\ _backupType = Null
  /\ _availableBackups = <<>>
  /\ _selectedBackupFile = <<>>
  /\ _targetDeviceId = Null
ContentConstructed ==
  /\ config = Null
  /\ _selectedTargetServerDeviceId = Null
  /\ _installType = Null
  /\ _availableFilesForInstall = <<>>
  /\ _selectedFileToInstall = <<>>
CommandConstructed ==
  /\ _selectedDeviceId = Null
  /\ _commandText = <<>>
EventConstructed ==
  /\ _eventName = <<>>
  /\ _eventPayload = <<>>
Constructed ==
  /\ PropsConstructed
  /\ PermConstructed
  /\ AllowConstructed
  /\ RestoreConstructed
  /\ ContentConstructed
  /\ CommandConstructed
  /\ EventConstructed

(***************************************************************************)
(* Properties card (bsm-properties-card.js)                                *)
(***************************************************************************)
EDITABLE_PROPERTIES ==
  <<"server-name", "level-name", "gamemode", "difficulty", "allow-cheats", "max-players",
    "online-mode", "default-player-permission-level", "view-distance",
    "tick-distance", "level-seed", "texturepack-required",
    "server-port", "server-portv6", "enable-lan-visibility", "allow-list">>

getProperty(obj, key, defaultValue) ==
  IF GetOwn(obj, key).t # "null" THEN GetOwn(obj, key) ELSE defaultValue

PropsInitialFeedback == <<"Select the sensor holding server properties.">>

\* the fields _resetSelectionRelatedState and _loadProperties write
PropsFields(cur, edit, err, fb) == [cur |-> cur, edit |-> edit, err |-> err, fb |-> fb]
PropsNow == PropsFields(_currentProperties, _editValues, _error, _feedback)

\* a variant that keeps the staged edits
PropsResetSelectionKeepingEdits(feedbackMessage, error) ==
  PropsFields(<<>>, _editValues, error, feedbackMessage)
\* _resetSelectionRelatedState
PropsResetSelectionRelatedState(feedbackMessage, error) ==
  PropsFields(<<>>, <<>>, error, feedbackMessage)

_loadProperties(stateObj, f) ==
  IF stateObj.attributes.t = "null"
    THEN [f EXCEPT !.err = <<"Selected sensor (", stateObj.entity_id,
                             ") has no attributes. Cannot load properties.">>,
                   !.cur = <<>>, !.edit = <<>>]
    ELSE LET properties == Member(stateObj.attributes, "server_properties") IN
      IF properties.t = "obj" /\ Len(properties.o) > 0
        THEN IF Stringify(properties) # Stringify(Obj(f.cur))
               THEN [f EXCEPT !.cur = properties.o, !.edit = properties.o, !.err = NoMsg]
               ELSE f
        ELSE [f EXCEPT !.err = <<"'server_properties' attribute is missing, invalid, or empty on selected sensor (",
                                 stateObj.entity_id, ").">>,
                       !.cur = <<>>, !.edit = <<>>]

PropsWrite(f) ==
  /\ _currentProperties' = f.cur
  /\ _editValues' = f.edit
  /\ _error' = f.err
  /\ _feedback' = f.fb

\* set hass(hass)
PropsSetHassFields(h) ==
  IF ~h.defined THEN PropsNow
  ELSE IF selected # None
    THEN LET stateObj == StateOf(h, selected)
             oldStateObj == StateOf(hass, selected)
         IN IF stateObj # Absent
              THEN IF Stringify(Coalesce(Member(stateObj.attributes, "server_properties"), Null))
                        # Stringify(Coalesce(Member(oldStateObj.attributes, "server_properties"), Null))
                     THEN _loadProperties(stateObj, PropsNow)
                     ELSE PropsNow
              ELSE IF oldStateObj # Absent \/ (~IsSet(_error) /\ _feedback # PropsInitialFeedback)
                     THEN PropsResetSelectionRelatedState(
                            NoMsg, <<"Selected sensor ", selected, " is no longer available.">>)
                     ELSE PropsNow
    ELSE IF ~(Len(_currentProperties) = 0 /\ ~IsSet(_error)
              /\ (_feedback = PropsInitialFeedback \/ ~IsSet(_feedback)))
           THEN PropsResetSelectionRelatedState(PropsInitialFeedback, NoMsg)
           ELSE PropsNow

\* render(): the property grid and the Save button are shown
canDisplayProperties ==
  selected # None /\ ~IsSet(_error) /\ Len(_currentProperties) > 0

\* a variant that compares the raw typed values
DiffersRaw(a, b) == a # b

\* String(a ?? '') !== String(b ?? '')
DiffersNormalized(a, b) ==
  JsString(Coalesce(a, Str(<<>>))) # JsString(Coalesce(b, Str(<<>>)))

\* a variant of the pending-changes check that compares the typed values
hasChangesTyped ==
  canDisplayProperties
  /\ \E i \in 1..Len(EDITABLE_PROPERTIES) :
       LET key == EDITABLE_PROPERTIES[i] IN
         /\ HasOwn(_currentProperties, key)
         /\ HasOwn(_editValues, key)
         /\ getProperty(_currentProperties, key, Null) # GetOwn(_editValues, key)
\* render(): hasChanges
hasChanges ==
  canDisplayProperties
  /\ \E i \in 1..Len(EDITABLE_PROPERTIES) :
       LET key == EDITABLE_PROPERTIES[i] IN
         /\ HasOwn(_currentProperties, key)
         /\ HasOwn(_editValues, key)
         /\ DiffersNormalized(getProperty(_currentProperties, key, Null), GetOwn(_editValues, key))

\* a variant that sends every staged editable key of the baseline
RECURSIVE allStagedProperties(_, _, _)
allStagedProperties(keys, cur, edit) ==
  IF keys = <<>> THEN <<>>
  ELSE LET key == Head(keys)
           rest == allStagedProperties(Tail(keys), cur, edit)
       IN IF HasOwn(cur, key) /\ HasOwn(edit, key)
            THEN <<Prop(key, GetOwn(edit, key))>> \o rest
            ELSE rest

\* _saveProperties: the loop building changedProperties
RECURSIVE changedProperties(_, _, _)
changedProperties(keys, cur, edit) ==
  IF keys = <<>> THEN <<>>
  ELSE LET key == Head(keys)
           rest == changedProperties(Tail(keys), cur, edit)
       IN IF HasOwn(cur, key) /\ HasOwn(edit, key)
             /\ DiffersNormalized(getProperty(cur, key, Null), GetOwn(edit, key))
            THEN <<Prop(key, GetOwn(edit, key))>> \o rest
            ELSE rest

\* _getTargetDeviceId (registry first, then the device_id attribute)
\* a variant that consults the device_id attribute before the registry
PropsGetTargetDeviceIdAttributeFirst ==
  IF ~hass.defined \/ selected = None THEN Null
  ELSE LET regDeviceId == RegistryDeviceId(hass, selected)
           attrDeviceId == Member(StateOf(hass, selected).attributes, "device_id")
       IN IF Truthy(attrDeviceId) /\ IsStr(attrDeviceId) /\ Trim(attrDeviceId.s) # <<>>
            THEN Str(Trim(attrDeviceId.s))
          ELSE IF Truthy(regDeviceId) /\ IsStr(regDeviceId) /\ Trim(regDeviceId.s) # <<>>
            THEN Str(Trim(regDeviceId.s))
          ELSE Null
PropsGetTargetDeviceId ==
  IF ~hass.defined \/ selected = None THEN Null
  ELSE LET regDeviceId == RegistryDeviceId(hass, selected)
           attrDeviceId == Member(StateOf(hass, selected).attributes, "device_id")
       IN IF Truthy(regDeviceId) /\ IsStr(regDeviceId) /\ Trim(regDeviceId.s) # <<>>
            THEN Str(Trim(regDeviceId.s))
          ELSE IF Truthy(attrDeviceId) /\ IsStr(attrDeviceId) /\ Trim(attrDeviceId.s) # <<>>
            THEN Str(Trim(attrDeviceId.s))
          ELSE Null

\* message extraction of _callService's catch block
ErrorMessage(err, unknown) ==
  IF err.t = "error" THEN err.s
  ELSE IF err.t = "obj" /\ Truthy(Member(err, "error")) THEN JsString(Member(err, "error"))
  ELSE IF err.t = "obj" /\ Truthy(Member(err, "message")) THEN JsString(Member(err, "message"))
  ELSE IF err.t = "str" THEN err.s
  ELSE unknown

\* host objects handed to the properties card
P10 == Obj(<<Prop("max-players", Str(<<"1", "0">>)), Prop("difficulty", Str(<<"normal">>))>>)
P20 == Obj(<<Prop("max-players", Str(<<"2", "0">>)), Prop("difficulty", Str(<<"normal">>))>>)
PropsAttributes ==
  {Null} \cup {Obj(<<Prop("server_properties", p), Prop("device_id", d)>>) :
                 p \in {Null, P10, P20}, d \in AttrDeviceIds}
PropsHassSet ==
  {NoHass} \cup
  {Hass([e \in Entities |-> IF e = "sensor.a" THEN a
                            ELSE StateObj(e, Obj(<<Prop("server_properties", P20)>>), 1)],
        [e \in Entities |-> IF e = "sensor.a" THEN r ELSE Str(<<"r", "b">>)]) :
     a \in {Absent} \cup {StateObj("sensor.a", at, 1) : at \in PropsAttributes},
     r \in RegDeviceIds}

\* values the selectors of the grid hand to _handleValueChange
PropsUserValues(key) ==
  CASE key = "max-players" -> {Num(10), Num(20)}
    [] key = "difficulty" -> {Str(<<"normal">>), Str(<<"hard">>)}
    [] OTHER -> {Str(<<>>)}

PropsSetHass(h) ==
  /\ card = "properties"
  /\ hass' = h
  /\ PropsWrite(PropsSetHassFields(h))
  /\ UNCHANGED <<notProps, card, selected, _isLoading, pending>>

\* _handleEntitySelection, from the entity selector (disabled while loading)
PropsHandleEntitySelection(entityId) ==
  /\ card = "properties"
  /\ hass.defined /\ ~_isLoading
  /\ entityId # selected
  /\ selected' = entityId
  /\ LET reset == PropsResetSelectionRelatedState(
                    IF entityId # None THEN <<"Loading properties...">> ELSE PropsInitialFeedback,
                    NoMsg)
         stateObj == StateOf(hass, entityId)
         loaded == _loadProperties(stateObj, reset)
     IN PropsWrite(
          IF entityId = None THEN reset
          ELSE IF stateObj # Absent
            THEN IF ~IsSet(loaded.err) THEN [loaded EXCEPT !.fb = NoMsg] ELSE loaded
            ELSE [reset EXCEPT !.err = <<"Selected entity ", entityId, " could not be found.">>,
                               !.fb = NoMsg])
  /\ UNCHANGED <<notProps, card, hass, _isLoading, pending>>

\* _handleValueChange, from a selector of the grid (disabled while loading)
PropsHandleValueChange(propKey, newValue) ==
  /\ card = "properties"
  /\ hass.defined /\ ~_isLoading /\ canDisplayProperties
  /\ HasOwn(_currentProperties, propKey)
  /\ _editValues' = SetOwn(_editValues, propKey, newValue)
  /\ _error' = NoMsg
  /\ UNCHANGED <<notProps, card, hass, selected, _isLoading, _feedback, pending, _currentProperties>>

\* _saveProperties up to its await, from the Save Changes button
PropsSaveProperties ==
  /\ card = "properties"
  /\ hass.defined /\ canDisplayProperties /\ hasChanges /\ ~_isLoading
  /\ Len(pending) < MaxInFlight
  /\ LET targetDeviceId == PropsGetTargetDeviceId
         changed == changedProperties(EDITABLE_PROPERTIES, _currentProperties, _editValues)
     IN IF ~Truthy(targetDeviceId)
          THEN /\ _error' = <<"Error: Could not determine target device ID from the selected sensor.">>
               /\ _feedback' = NoMsg
               /\ UNCHANGED <<_isLoading, pending>>
        ELSE IF changed = <<>>
          THEN /\ _error' = <<"No changes detected to save.">>
               /\ _feedback' = NoMsg
               /\ UNCHANGED <<_isLoading, pending>>
        ELSE /\ _isLoading' = TRUE
             /\ _error' = NoMsg
             /\ _feedback' = NoMsg
             /\ pending' = Append(pending,
                  Call("service", "update_properties",
                       Obj(<<Prop("device_id", targetDeviceId), Prop("properties", Obj(changed))>>),
                       <<"Properties update requested. Changes will reflect after the next server poll or restart.">>,
                       Obj(changed)))
  /\ UNCHANGED <<notProps, card, hass, selected, _currentProperties, _editValues>>

\* _callService after its await, then the rest of _saveProperties
PropsCallServiceResolved(i) ==
  /\ card = "properties"
  /\ i \in 1..Len(pending)
  /\ pending' = Without(pending, i)
  /\ _feedback' = pending[i].feedback
  /\ _isLoading' = FALSE
  /\ _currentProperties' = Spread(_currentProperties, pending[i].keep.o)
  /\ _editValues' = _currentProperties'
  /\ UNCHANGED <<notProps, card, hass, selected, _error>>

\* a variant whose catch block drops the staged edits
PropsCallServiceRejectedDroppingEdits(i, err) ==
  /\ card = "properties"
  /\ i \in 1..Len(pending)
  /\ pending' = Without(pending, i)
  /\ _error' = <<"Error: ">> \o ErrorMessage(err, <<"An unknown error occurred. Check HA logs.">>)
  /\ _isLoading' = FALSE
  /\ _editValues' = _currentProperties
  /\ UNCHANGED <<notProps, card, hass, selected, _feedback, _currentProperties>>

\* _callService rejected
PropsCallServiceRejected(i, err) ==
  /\ card = "properties"
  /\ i \in 1..Len(pending)
  /\ pending' = Without(pending, i)
  /\ _error' = <<"Error: ">> \o ErrorMessage(err, <<"An unknown error occurred. Check HA logs.">>)
  /\ _isLoading' = FALSE
  /\ UNCHANGED <<notProps, card, hass, selected, _feedback, _currentProperties, _editValues>>

PropsInit ==
  /\ card = "properties"
  /\ hass = NoHass
  /\ selected = None
  /\ _isLoading = FALSE
  /\ _error = NoMsg
  /\ _feedback = PropsInitialFeedback
  /\ pending = <<>>
  /\ Constructed

PropsNext ==
  \/ \E h \in PropsHassSet : PropsSetHass(h)
  \/ \E e \in Entities \cup {None} : PropsHandleEntitySelection(e)
  \/ \E i \in 1..Len(EDITABLE_PROPERTIES) :
       \E v \in PropsUserValues(EDITABLE_PROPERTIES[i]) :
         PropsHandleValueChange(EDITABLE_PROPERTIES[i], v)
  \/ PropsSaveProperties
  \/ \E i \in 1..MaxInFlight : PropsCallServiceResolved(i)
  \/ \E i \in 1..MaxInFlight, err \in RemoteFailures : PropsCallServiceRejected(i, err)

SpecProps == PropsInit /\ [][PropsNext]_vars

(***************************************************************************)
(* Properties card, the earlier revision of src/unnamed/part_002           *)
(***************************************************************************)
EarlyPropsInitialFeedback == <<"Select a server's status sensor to view/edit properties.">>

\* String(getProperty(obj, key)): getProperty hands back undefined for a key
\* that is not in obj
EarlyPropsString(obj, key) ==
  IF HasOwn(obj, key) THEN JsString(GetOwn(obj, key)) ELSE <<"undefined">>

\* JSON.stringify(stateObj?.attributes?.server_properties), undefined when
\* there is no such attribute
EarlyPropsAttrString(stateObj) ==
  IF stateObj.attributes.t = "obj" /\ HasOwn(stateObj.attributes.o, "server_properties")
    THEN Stringify(Member(stateObj.attributes, "server_properties"))
    ELSE <<"undefined">>

\* _loadProperties
EarlyPropsLoadProperties(stateObj, f) ==
  IF stateObj.attributes.t = "null"
    THEN [f EXCEPT !.err = <<"Selected sensor (", stateObj.entity_id,
                             ") has no attributes. Cannot load properties.">>,
                   !.cur = <<>>, !.edit = <<>>]
    ELSE LET properties == Member(stateObj.attributes, "server_properties") IN
      IF properties.t = "obj"
        THEN IF Stringify(properties) # Stringify(Obj(f.cur)) \/ f.edit = <<>>
               THEN [f EXCEPT !.cur = properties.o, !.edit = properties.o, !.err = NoMsg]
               ELSE f
        ELSE [f EXCEPT !.err = <<"'server_properties' attribute is missing or invalid on selected sensor (",
                                 stateObj.entity_id, ").">>,
                       !.cur = <<>>, !.edit = <<>>]

\* set hass(hass)
EarlyPropsSetHassFields(h) ==
  IF ~h.defined THEN PropsNow
  ELSE IF selected # None
    THEN LET stateObj == StateOf(h, selected)
             oldStateObj == StateOf(hass, selected)
         IN IF stateObj # Absent
              THEN IF EarlyPropsAttrString(stateObj) # EarlyPropsAttrString(oldStateObj)
                     THEN EarlyPropsLoadProperties(stateObj, PropsNow)
                     ELSE PropsNow
              ELSE IF oldStateObj # Absent
                      \/ (~IsSet(_error) /\ _feedback # EarlyPropsInitialFeedback)
                     THEN PropsResetSelectionRelatedState(
                            NoMsg, <<"Status entity ", selected, " is no longer available.">>)
                     ELSE PropsNow
  ELSE IF ~(Len(_currentProperties) = 0 /\ ~IsSet(_error)
            /\ (_feedback = EarlyPropsInitialFeedback \/ ~IsSet(_feedback)))
         THEN PropsResetSelectionRelatedState(EarlyPropsInitialFeedback, NoMsg)
         ELSE PropsNow

\* render(): canDisplayProperties and hasChanges
EarlyPropsCanDisplayProperties ==
  selected # None /\ ~IsSet(_error) /\ Len(_currentProperties) > 0
EarlyPropsHasChanges ==
  EarlyPropsCanDisplayProperties
  /\ \E i \in 1..Len(EDITABLE_PROPERTIES) :
       EarlyPropsString(_currentProperties, EDITABLE_PROPERTIES[i])
         # EarlyPropsString(_editValues, EDITABLE_PROPERTIES[i])

\* _saveProperties: the loop building changedProperties
RECURSIVE EarlyPropsChangedProperties(_, _, _)
EarlyPropsChangedProperties(keys, cur, edit) ==
  IF keys = <<>> THEN <<>>
  ELSE LET key == Head(keys)
           rest == EarlyPropsChangedProperties(Tail(keys), cur, edit)
       IN IF HasOwn(edit, key) /\ EarlyPropsString(cur, key) # EarlyPropsString(edit, key)
            THEN <<Prop(key, GetOwn(edit, key))>> \o rest
            ELSE rest

\* _getTargetDeviceId (the device_id attribute first, then the registry)
EarlyPropsGetTargetDeviceId ==
  IF ~hass.defined \/ selected = None THEN Null
  ELSE LET regDeviceId == RegistryDeviceId(hass, selected)
           attrDeviceId == Member(StateOf(hass, selected).attributes, "device_id")
       IN IF Truthy(attrDeviceId) /\ IsStr(attrDeviceId) /\ Trim(attrDeviceId.s) # <<>>
            THEN Str(Trim(attrDeviceId.s))
          ELSE IF Truthy(regDeviceId) /\ IsStr(regDeviceId) /\ Trim(regDeviceId.s) # <<>>
            THEN Str(Trim(regDeviceId.s))
          ELSE Null

\* the keys whose selectors are operated, one of them absent from every
\* reported server_properties
EarlyPropsOperatedKeys == <<"max-players", "difficulty", "level-seed">>

EarlyPropsSetHass(h) ==
  /\ card = "properties-early"
  /\ hass' = h
  /\ PropsWrite(EarlyPropsSetHassFields(h))
  /\ UNCHANGED <<notProps, card, selected, _isLoading, pending>>

\* _handleEntitySelection, from the entity selector (disabled while loading)
EarlyPropsHandleEntitySelection(entityId) ==
  /\ card = "properties-early"
  /\ hass.defined /\ ~_isLoading
  /\ entityId # selected
  /\ selected' = entityId
  /\ LET reset == PropsResetSelectionRelatedState(<<"Loading properties...">>, NoMsg)
         stateObj == StateOf(hass, entityId)
         loaded == EarlyPropsLoadProperties(stateObj, reset)
     IN PropsWrite(
          IF entityId = None
            THEN PropsResetSelectionRelatedState(EarlyPropsInitialFeedback, NoMsg)
          ELSE IF stateObj # Absent
            THEN IF ~IsSet(loaded.err) THEN [loaded EXCEPT !.fb = NoMsg] ELSE loaded
            ELSE PropsResetSelectionRelatedState(
                   NoMsg, <<"Selected entity ", entityId, " could not be found.">>))
  /\ UNCHANGED <<notProps, card, hass, _isLoading, pending>>

\* _handleValueChange, from a selector of the grid, which shows every
\* editable property (disabled while loading)
EarlyPropsHandleValueChange(propKey, newValue) ==
  /\ card = "properties-early"
  /\ hass.defined /\ ~_isLoading /\ EarlyPropsCanDisplayProperties
  /\ _editValues' = SetOwn(_editValues, propKey, newValue)
  /\ _error' = NoMsg
  /\ UNCHANGED <<notProps, card, hass, selected, _isLoading, _feedback, pending, _currentProperties>>

\* _saveProperties up to its await, from the Save Changes button
EarlyPropsSaveProperties ==
  /\ card = "properties-early"
  /\ hass.defined /\ EarlyPropsCanDisplayProperties /\ EarlyPropsHasChanges /\ ~_isLoading
  /\ Len(pending) < MaxInFlight
  /\ LET targetDeviceId == EarlyPropsGetTargetDeviceId
         changed == EarlyPropsChangedProperties(EDITABLE_PROPERTIES, _currentProperties,
                                                _editValues)
     IN IF ~Truthy(targetDeviceId)
          THEN /\ _error' = <<"Error: Could not determine target device ID from the selected sensor.">>
               /\ _feedback' = NoMsg
               /\ UNCHANGED <<_isLoading, pending>>
        ELSE IF changed = <<>>
          THEN /\ _error' = <<"No changes detected to save.">>
               /\ _feedback' = NoMsg
               /\ UNCHANGED <<_isLoading, pending>>
        ELSE /\ _isLoading' = TRUE
             /\ _error' = NoMsg
             /\ _feedback' = NoMsg
             /\ pending' = Append(pending,
                  Call("service", "update_properties",
                       Obj(<<Prop("device_id", targetDeviceId), Prop("properties", Obj(changed))>>),
                       <<"Properties update requested. Changes will reflect after the next server poll or restart.">>,
                       Obj(changed)))
  /\ UNCHANGED <<notProps, card, hass, selected, _currentProperties, _editValues>>

\* _callService after its await, then the rest of _saveProperties
EarlyPropsCallServiceResolved(i) ==
  /\ card = "properties-early"
  /\ i \in 1..Len(pending)
  /\ pending' = Without(pending, i)
  /\ _feedback' = pending[i].feedback
  /\ _isLoading' = FALSE
  /\ _currentProperties' = Spread(_currentProperties, pending[i].keep.o)
  /\ _editValues' = _currentProperties'
  /\ UNCHANGED <<notProps, card, hass, selected, _error>>

\* _callService rejected
EarlyPropsCallServiceRejected(i, err) ==
  /\ card = "properties-early"
  /\ i \in 1..Len(pending)
  /\ pending' = Without(pending, i)
  /\ _error' = <<"Error: ">>
               \o (IF Truthy(Member(Member(err, "body"), "message"))
                     THEN JsString(Member(Member(err, "body"), "message"))
                   ELSE IF err.t = "error" /\ err.s # <<>> THEN err.s
                   ELSE IF Truthy(Member(err, "message")) THEN JsString(Member(err, "message"))
                   ELSE <<"An unknown error occurred. Check HA logs.">>)
  /\ _isLoading' = FALSE
  /\ UNCHANGED <<notProps, card, hass, selected, _feedback, _currentProperties, _editValues>>

EarlyPropsInit ==
  /\ card = "properties-early"
  /\ hass = NoHass
  /\ selected = None
  /\ _isLoading = FALSE
  /\ _error = NoMsg
  /\ _feedback = EarlyPropsInitialFeedback
  /\ pending = <<>>
  /\ Constructed

EarlyPropsNext ==
  \/ \E h \in PropsHassSet : EarlyPropsSetHass(h)
  \/ \E e \in Entities \cup {None} : EarlyPropsHandleEntitySelection(e)
  \/ \E i \in 1..Len(EarlyPropsOperatedKeys) :
       \E v \in PropsUserValues(EarlyPropsOperatedKeys[i]) :
         EarlyPropsHandleValueChange(EarlyPropsOperatedKeys[i], v)
  \/ EarlyPropsSaveProperties
  \/ \E i \in 1..MaxInFlight : EarlyPropsCallServiceResolved(i)
  \/ \E i \in 1..MaxInFlight, err \in RemoteFailures : EarlyPropsCallServiceRejected(i, err)

SpecEarlyProps == EarlyPropsInit /\ [][EarlyPropsNext]_vars

\* both revisions of the properties card
SpecPropsRevisions ==
  (PropsInit \/ EarlyPropsInit) /\ [][PropsNext \/ EarlyPropsNext]_vars

(***************************************************************************)
(* Permissions card (bsm-permissions-card.js)                              *)
(***************************************************************************)
VALID_PERMISSIONS == <<"visitor", "member", "operator">>
\* a variant that takes any string for a level
IsAnyString(level) == IsStr(level)
\* VALID_PERMISSIONS.includes(level)
IsValidPermission(level) ==
  IsStr(level) /\ \E i \in 1..Len(VALID_PERMISSIONS) : level.s = <<VALID_PERMISSIONS[i]>>

\* config.global_players_entity
GlobalPlayersEntity == "sensor.players"

PermSelectFeedback == <<"Select a server's permission sensor.">>
PermLoadingFeedback == <<"Loading server permissions...">>

PermFields(sel, cur, edit, err, fb, gp) ==
  [sel |-> sel, cur |-> cur, edit |-> edit, err |-> err, fb |-> fb, gp |-> gp]
PermNow ==
  PermFields(selected, _currentServerPermissions, _editData, _error, _feedback, _globalPlayers)
PermWrite(f) ==
  /\ selected' = f.sel
  /\ _currentServerPermissions' = f.cur
  /\ _editData' = f.edit
  /\ _error' = f.err
  /\ _feedback' = f.fb
  /\ _globalPlayers' = f.gp

\* .sort((a, b) => (a.name || "").localeCompare(b.name || ""))
RECURSIVE InsertByName(_, _)
InsertByName(player, sorted) ==
  IF sorted = <<>> THEN <<player>>
  ELSE IF Before(JsString(Member(player, "name")), JsString(Member(Head(sorted), "name")))
    THEN <<player>> \o sorted
  ELSE <<Head(sorted)>> \o InsertByName(player, Tail(sorted))
RECURSIVE SortByName(_)
SortByName(players) ==
  IF players = <<>> THEN <<>>
  ELSE InsertByName(players[Len(players)], SortByName(SubSeq(players, 1, Len(players) - 1)))

\* _loadGlobalPlayers
_loadGlobalPlayers(stateObj, f) ==
  IF stateObj.attributes.t = "null" THEN [f EXCEPT !.gp = <<>>]
  ELSE LET players == Member(stateObj.attributes, "global_players_list")
           valid(p) == Truthy(p) /\ p.t = "obj" /\ Truthy(Member(p, "xuid")) /\ Truthy(Member(p, "name"))
           newPlayers == IF players.t = "arr" THEN SortByName(SelectSeq(players.o, valid)) ELSE <<>>
       IN IF Stringify(Arr(newPlayers)) # Stringify(Arr(f.gp))
            THEN [f EXCEPT !.gp = newPlayers]
            ELSE f

\* a variant that ingests the attribute without comparing it to the baseline
_loadServerPermissionsAlways(stateObj, f) ==
  LET permissions == Member(stateObj.attributes, "server_permissions")
  IN [f EXCEPT !.cur = IF permissions.t = "arr" THEN permissions.o ELSE <<>>,
               !.edit = <<>>, !.err = NoMsg, !.fb = NoMsg]
\* _loadServerPermissions
_loadServerPermissions(stateObj, f) ==
  IF stateObj.attributes.t = "null"
    THEN [f EXCEPT !.err = <<"Selected server permissions entity (", stateObj.entity_id,
                             ") has no attributes.">>,
                   !.cur = <<>>, !.edit = <<>>, !.fb = NoMsg]
    ELSE LET permissions == Member(stateObj.attributes, "server_permissions")
             valid(p) == /\ Truthy(p) /\ p.t = "obj" /\ Truthy(Member(p, "xuid"))
                         /\ IsValidPermission(Member(p, "permission_level"))
             isArray == permissions.t = "arr"
             newPermissions == IF isArray THEN SelectSeq(permissions.o, valid) ELSE <<>>
             g == IF isArray THEN f
                  ELSE [f EXCEPT !.err = <<"'server_permissions' attribute missing or invalid on ",
                                           stateObj.entity_id, ".">>,
                                 !.fb = NoMsg]
         IN IF Stringify(Arr(newPermissions)) # Stringify(Arr(f.cur))
              THEN [g EXCEPT !.cur = newPermissions, !.edit = <<>>, !.err = NoMsg, !.fb = NoMsg]
              ELSE IF g.fb = PermLoadingFeedback THEN [g EXCEPT !.fb = NoMsg] ELSE g

\* _handleServerEntitySelection
_handleServerEntitySelection(entityId, h, f) ==
  IF entityId = f.sel THEN f
  ELSE LET reset == [f EXCEPT !.sel = entityId, !.cur = <<>>, !.edit = <<>>, !.err = NoMsg]
       IN IF entityId = None THEN [reset EXCEPT !.fb = PermSelectFeedback]
          ELSE IF StateOf(h, entityId) # Absent
            THEN _loadServerPermissions(StateOf(h, entityId), [reset EXCEPT !.fb = PermLoadingFeedback])
            ELSE [reset EXCEPT !.fb = <<"Waiting for server sensor data...">>]

\* set hass(hass)
PermSetHassFields(h) ==
  IF ~h.defined THEN PermNow
  ELSE
    LET globalStateObj == StateOf(h, GlobalPlayersEntity)
        oldGlobalStateObj == StateOf(hass, GlobalPlayersEntity)
        f == IF globalStateObj # Absent /\ globalStateObj # oldGlobalStateObj
               THEN _loadGlobalPlayers(globalStateObj, PermNow)
             ELSE IF globalStateObj = Absent /\ oldGlobalStateObj # Absent
               THEN [PermNow EXCEPT !.gp = <<>>]
             ELSE PermNow
        serverStateObj == StateOf(h, selected)
        oldServerStateObj == StateOf(hass, selected)
    IN IF selected = None THEN f
       ELSE IF serverStateObj # Absent
         THEN IF \/ serverStateObj # oldServerStateObj
                 \/ Stringify(Coalesce(Member(serverStateObj.attributes, "server_permissions"), Null))
                      # Stringify(Coalesce(Member(oldServerStateObj.attributes, "server_permissions"), Null))
                THEN _loadServerPermissions(serverStateObj, f)
                ELSE f
       ELSE IF oldServerStateObj # Absent
         \* the message is built after the selection has been reset to null
         THEN [_handleServerEntitySelection(None, h, f) EXCEPT
                 !.err = <<"Server permissions entity ", None, " is no longer available.">>]
       ELSE f

\* the XUIDs render() lists: the baseline's and the staged ones
PermBaselineXuids == {Member(_currentServerPermissions[i], "xuid").s : i \in 1..Len(_currentServerPermissions)}
PermStagedXuids == {_editData[i].k : i \in 1..Len(_editData)}
\* render(): the known players offered by the select
PermAvailableGlobalPlayers ==
  {Member(_globalPlayers[i], "xuid").s : i \in 1..Len(_globalPlayers)}
    \ (PermBaselineXuids \cup PermStagedXuids)
\* render(): canAddPlayer, canSave
canAddPlayer ==
  ~_isLoading /\ (_newPlayerSelectedXUID # <<>> \/ Trim(_newPlayerManualXUID) # <<>>)
hasStagedChanges == Len(_editData) > 0
canSave == hasStagedChanges /\ ~_isLoading

\* host objects handed to the permissions card
PermEntry(xuid, level) == Obj(<<Prop("xuid", Str(xuid)), Prop("permission_level", Str(<<level>>))>>)
L1 == Arr(<<PermEntry(<<"1">>, "member")>>)
L2 == Arr(<<PermEntry(<<"1">>, "operator"), PermEntry(<<>>, "member")>>)
PermAttributes(p, d) == Obj(<<Prop("server_permissions", p), Prop("device_id", d)>>)
PermPlayersSensor ==
  StateObj(GlobalPlayersEntity,
           Obj(<<Prop("global_players_list",
                      Arr(<<Obj(<<Prop("xuid", Str(<<"2">>)), Prop("name", Str(<<"Alex">>))>>)>>))>>),
           1)
PermHassOf(a, r) ==
  Hass([e \in Entities \cup {GlobalPlayersEntity} |->
          IF e = "sensor.a" THEN a
          ELSE IF e = "sensor.b" THEN StateObj(e, Obj(<<Prop("server_permissions", L1)>>), 1)
          ELSE PermPlayersSensor],
       [e \in Entities |-> IF e = "sensor.a" THEN r ELSE Str(<<"r", "b">>)])
\* the registry's and the attribute's device id, varied together
PermDeviceIds ==
  {<<Str(<<" ", "r", "1", " ">>), Str(<<"a", "1">>)>>, <<Str(<<" ", " ">>), Null>>,
   <<Null, Num(7)>>, <<Null, Str(<<" ", "a", "1">>)>>, <<Null, Null>>}
PermHassSet ==
  {NoHass}
    \cup {PermHassOf(StateObj("sensor.a", PermAttributes(L1, d[2]), 1), d[1]) : d \in PermDeviceIds}
    \cup {PermHassOf(a, Str(<<" ", "r", "1", " ">>)) :
            a \in {Absent, StateObj("sensor.a", Null, 1),
                   StateObj("sensor.a", PermAttributes(Null, Str(<<"a", "1">>)), 1),
                   StateObj("sensor.a", PermAttributes(L1, Str(<<"a", "1">>)), 2),
                   StateObj("sensor.a", PermAttributes(L2, Str(<<"a", "1">>)), 1)}}

PermSetHass(h) ==
  /\ card = "permissions"
  /\ hass' = h
  /\ PermWrite(PermSetHassFields(h))
  /\ UNCHANGED <<notPerm, card, _isLoading, pending, _newPlayerSelectedXUID,
                 _newPlayerManualXUID, _newPlayerManualName, _newPlayerPermissionLevel>>

\* _handleServerEntitySelection, from the sensor selector (disabled while loading)
PermHandleServerEntitySelection(entityId) ==
  /\ card = "permissions"
  /\ hass.defined /\ ~_isLoading
  /\ entityId # selected
  /\ PermWrite(_handleServerEntitySelection(entityId, hass, PermNow))
  /\ UNCHANGED <<notPerm, card, hass, _isLoading, pending, _newPlayerSelectedXUID,
                 _newPlayerManualXUID, _newPlayerManualName, _newPlayerPermissionLevel>>

\* _handlePermissionLevelChange, from the level select of a listed entry
PermHandlePermissionLevelChange(xuid, newLevel) ==
  /\ card = "permissions"
  /\ hass.defined /\ selected # None /\ ~_isLoading
  /\ xuid \in PermBaselineXuids \cup PermStagedXuids
  /\ IsValidPermission(Str(<<newLevel>>))
  /\ _editData' = SetKey(_editData, xuid, Str(<<newLevel>>))
  /\ _feedback' = NoMsg
  /\ _error' = NoMsg
  /\ UNCHANGED <<notPerm, card, hass, selected, _isLoading, pending, _currentServerPermissions,
                 _globalPlayers, _newPlayerSelectedXUID, _newPlayerManualXUID,
                 _newPlayerManualName, _newPlayerPermissionLevel>>

\* _handleNewPlayerSelectedXUIDChange, from the known-player select
PermHandleNewPlayerSelectedXUIDChange(value) ==
  /\ card = "permissions"
  /\ hass.defined /\ selected # None /\ ~_isLoading /\ _newPlayerManualXUID = <<>>
  /\ value \in PermAvailableGlobalPlayers \cup {<<>>}
  /\ _newPlayerSelectedXUID' = value
  /\ _newPlayerManualXUID' = IF value # <<>> THEN <<>> ELSE _newPlayerManualXUID
  /\ _newPlayerManualName' = IF value # <<>> THEN <<>> ELSE _newPlayerManualName
  /\ UNCHANGED <<notPerm, card, hass, selected, _isLoading, _error, _feedback, pending,
                 _currentServerPermissions, _editData, _globalPlayers, _newPlayerPermissionLevel>>

\* _handleNewPlayerManualXUIDChange, from the XUID text field
PermHandleNewPlayerManualXUIDChange(value) ==
  /\ card = "permissions"
  /\ hass.defined /\ selected # None /\ ~_isLoading /\ _newPlayerSelectedXUID = <<>>
  /\ _newPlayerManualXUID' = Trim(value)
  /\ _newPlayerSelectedXUID' = IF Trim(value) # <<>> THEN <<>> ELSE _newPlayerSelectedXUID
  /\ UNCHANGED <<notPerm, card, hass, selected, _isLoading, _error, _feedback, pending,
                 _currentServerPermissions, _editData, _globalPlayers, _newPlayerManualName,
                 _newPlayerPermissionLevel>>

\* _handleNewPlayerManualNameChange, from the name text field
PermHandleNewPlayerManualNameChange(value) ==
  /\ card = "permissions"
  /\ hass.defined /\ selected # None /\ ~_isLoading /\ _newPlayerSelectedXUID = <<>>
  /\ _newPlayerManualName' = value
  /\ _newPlayerSelectedXUID' =
       IF value # <<>> /\ _newPlayerSelectedXUID # <<>> THEN <<>> ELSE _newPlayerSelectedXUID
  /\ UNCHANGED <<notPerm, card, hass, selected, _isLoading, _error, _feedback, pending,
                 _currentServerPermissions, _editData, _globalPlayers, _newPlayerManualXUID,
                 _newPlayerPermissionLevel>>

\* _handleNewPlayerPermissionLevelChange, from the level select of the form
PermHandleNewPlayerPermissionLevelChange(value) ==
  /\ card = "permissions"
  /\ hass.defined /\ selected # None /\ ~_isLoading
  /\ _newPlayerPermissionLevel' = <<value>>
  /\ UNCHANGED <<notPerm, card, hass, selected, _isLoading, _error, _feedback, pending,
                 _currentServerPermissions, _editData, _globalPlayers, _newPlayerSelectedXUID,
                 _newPlayerManualXUID, _newPlayerManualName>>

\* the name of a known player, for the staging feedback
PermGlobalPlayerName(xuid) ==
  IF \E i \in 1..Len(_globalPlayers) : Member(_globalPlayers[i], "xuid").s = xuid
    THEN Member(_globalPlayers[CHOOSE i \in 1..Len(_globalPlayers) :
                                 Member(_globalPlayers[i], "xuid").s = xuid], "name").s
    ELSE <<"XUID: ">> \o xuid

\* _stageNewPlayerPermission, from the Stage This Player button
PermStageNewPlayerPermission ==
  /\ card = "permissions"
  /\ hass.defined /\ selected # None /\ canAddPlayer
  /\ LET xuidToAdd == IF _newPlayerSelectedXUID # <<>> THEN _newPlayerSelectedXUID
                      ELSE _newPlayerManualXUID
         nameForDisplay ==
           IF _newPlayerSelectedXUID # <<>> THEN PermGlobalPlayerName(xuidToAdd)
           ELSE IF Trim(_newPlayerManualName) # <<>> THEN Trim(_newPlayerManualName)
           ELSE <<"XUID: ">> \o xuidToAdd
     IN IF _newPlayerSelectedXUID = <<>> /\ _newPlayerManualXUID = <<>>
          THEN /\ _error' = <<"Please select a known player OR enter a manual XUID.">>
               /\ UNCHANGED <<_editData, _feedback, _newPlayerSelectedXUID, _newPlayerManualXUID,
                              _newPlayerManualName, _newPlayerPermissionLevel>>
        ELSE IF ~IsValidPermission(Str(_newPlayerPermissionLevel))
          THEN /\ _error' = <<"Invalid permission level selected.">>
               /\ UNCHANGED <<_editData, _feedback, _newPlayerSelectedXUID, _newPlayerManualXUID,
                              _newPlayerManualName, _newPlayerPermissionLevel>>
        ELSE IF xuidToAdd \in PermBaselineXuids \/ HasKey(_editData, xuidToAdd)
          THEN /\ _error' = <<"Player with XUID ">> \o xuidToAdd \o
                            <<" already has permissions defined or staged for this server. Edit the existing entry instead.">>
               /\ UNCHANGED <<_editData, _feedback, _newPlayerSelectedXUID, _newPlayerManualXUID,
                              _newPlayerManualName, _newPlayerPermissionLevel>>
        ELSE /\ _editData' = SetKey(_editData, xuidToAdd, Str(_newPlayerPermissionLevel))
             /\ _feedback' = <<"Staged permission for ">> \o nameForDisplay \o <<" (">> \o xuidToAdd
                             \o <<") to ">> \o _newPlayerPermissionLevel
                             \o <<". Click 'Save Changes' to apply.">>
             /\ _error' = NoMsg
             /\ _newPlayerSelectedXUID' = <<>>
             /\ _newPlayerManualXUID' = <<>>
             /\ _newPlayerManualName' = <<>>
             /\ _newPlayerPermissionLevel' = <<VALID_PERMISSIONS[1]>>
  /\ UNCHANGED <<notPerm, card, hass, selected, _isLoading, pending, _currentServerPermissions,
                 _globalPlayers>>

\* _savePermissions up to its first await (the registry lookup), from the
\* Save All Staged Changes button
PermSavePermissions ==
  /\ card = "permissions"
  /\ hass.defined /\ selected # None /\ canSave
  /\ Len(pending) < MaxInFlight
  /\ _isLoading' = TRUE
  /\ _error' = NoMsg
  /\ _feedback' = <<"Saving permissions changes...">>
  /\ pending' = Append(pending,
       Call("ws", "config/entity_registry/get", Obj(<<Prop("entity_id", Str(<<selected>>))>>),
            NoMsg, Null))
  /\ UNCHANGED <<notPerm, card, hass, selected, permVars>>

\* a variant that returns without an answer from the lookup and keeps the
\* loading flag
PermAfterRegistryLookupStillLoading(i, targetDeviceId) ==
  IF ~Truthy(targetDeviceId)
    THEN /\ _error' = <<"Error: Could not determine the target Device ID for the selected server entity (",
                        selected, "). Cannot save permissions. Check entity configuration.">>
         /\ _feedback' = NoMsg
         /\ pending' = Without(pending, i)
         /\ UNCHANGED _isLoading
    ELSE /\ pending' = [pending EXCEPT ![i] =
              Call("service", "set_permissions",
                   Obj(<<Prop("device_id", targetDeviceId), Prop("permissions", Obj(_editData))>>),
                   NoMsg, Null)]
         /\ UNCHANGED <<_error, _isLoading, _feedback>>
\* _savePermissions between the registry lookup and the service call
PermAfterRegistryLookup(i, targetDeviceId) ==
  IF ~Truthy(targetDeviceId)
    THEN /\ _error' = <<"Error: Could not determine the target Device ID for the selected server entity (",
                        selected, "). Cannot save permissions. Check entity configuration.">>
         /\ _isLoading' = FALSE
         /\ _feedback' = NoMsg
         /\ pending' = Without(pending, i)
    ELSE /\ pending' = [pending EXCEPT ![i] =
              Call("service", "set_permissions",
                   Obj(<<Prop("device_id", targetDeviceId), Prop("permissions", Obj(_editData))>>),
                   NoMsg, Null)]
         /\ UNCHANGED <<_error, _isLoading, _feedback>>

\* hass.callWS resolved with the registry entry of the entity asked for
PermCallWSResolved(i) ==
  /\ card = "permissions"
  /\ i \in 1..Len(pending) /\ pending[i].kind = "ws"
  /\ PermAfterRegistryLookup(i, RegistryDeviceId(hass, pending[i].sel))
  /\ UNCHANGED <<notPerm, card, hass, selected, permVars>>

\* hass.callWS rejected: the device_id attribute of the selected sensor is used
PermCallWSRejected(i) ==
  /\ card = "permissions"
  /\ i \in 1..Len(pending) /\ pending[i].kind = "ws"
  /\ PermAfterRegistryLookup(i, Member(StateOf(hass, selected).attributes, "device_id"))
  /\ UNCHANGED <<notPerm, card, hass, selected, permVars>>

PermCallServiceResolved(i) ==
  /\ card = "permissions"
  /\ i \in 1..Len(pending) /\ pending[i].kind = "service"
  /\ pending' = Without(pending, i)
  /\ _feedback' = <<"Permissions update successfully requested. The list will refresh automatically when the server reports the changes.">>
  /\ _editData' = <<>>
  /\ _isLoading' = FALSE
  /\ UNCHANGED <<notPerm, card, hass, selected, _error, _currentServerPermissions, _globalPlayers,
                 _newPlayerSelectedXUID, _newPlayerManualXUID, _newPlayerManualName,
                 _newPlayerPermissionLevel>>

PermCallServiceRejected(i, err) ==
  /\ card = "permissions"
  /\ i \in 1..Len(pending) /\ pending[i].kind = "service"
  /\ pending' = Without(pending, i)
  /\ _error' = <<"Error saving permissions: ">>
               \o ErrorMessage(err, <<"An unknown error occurred. Check Home Assistant logs.">>)
  /\ _feedback' = NoMsg
  /\ _isLoading' = FALSE
  /\ UNCHANGED <<notPerm, card, hass, selected, permVars>>

PermInit ==
  /\ card = "permissions"
  /\ hass = NoHass
  /\ selected = None
  /\ _isLoading = FALSE
  /\ _error = NoMsg
  /\ _feedback = PermSelectFeedback
  /\ pending = <<>>
  /\ Constructed

\* what the user types or picks in the new-player form
PermTypedXuids == {<<>>, <<" ", "1">>}
PermTypedNames == {<<>>, <<"Bob">>}
PermPickedLevels == {"visitor", "operator"}

PermNext ==
  \/ \E h \in PermHassSet : PermSetHass(h)
  \/ \E e \in Entities \cup {None} : PermHandleServerEntitySelection(e)
  \/ \E x \in PermBaselineXuids \cup PermStagedXuids, l \in {"member", "operator"} :
       PermHandlePermissionLevelChange(x, l)
  \/ \E x \in PermAvailableGlobalPlayers \cup {<<>>} : PermHandleNewPlayerSelectedXUIDChange(x)
  \/ \E x \in PermTypedXuids : PermHandleNewPlayerManualXUIDChange(x)
  \/ \E n \in PermTypedNames : PermHandleNewPlayerManualNameChange(n)
  \/ \E l \in PermPickedLevels : PermHandleNewPlayerPermissionLevelChange(l)
  \/ PermStageNewPlayerPermission
  \/ PermSavePermissions
  \/ \E i \in 1..MaxInFlight : PermCallWSResolved(i)
  \/ \E i \in 1..MaxInFlight : PermCallWSRejected(i)
  \/ \E i \in 1..MaxInFlight : PermCallServiceResolved(i)
  \/ \E i \in 1..MaxInFlight, err \in RemoteFailures : PermCallServiceRejected(i, err)

SpecPerm == PermInit /\ [][PermNext]_vars

(***************************************************************************)
(* Permissions card, the earlier revision of src/unnamed/part_003          *)
(***************************************************************************)
\* _loadGlobalPlayers (the list holds at most one player here, so the sort by
\* name leaves it as it is)
EarlyLoadGlobalPlayers(stateObj, f) ==
  LET players == Member(stateObj.attributes, "global_players_list")
  IN [f EXCEPT !.gp = IF players.t = "arr" THEN players.o ELSE <<>>]

\* _loadServerPermissions
EarlyLoadServerPermissions(stateObj, f) ==
  IF stateObj.attributes.t = "null"
    THEN [f EXCEPT !.err = <<"Selected server permissions entity has no attributes.">>,
                   !.cur = <<>>, !.edit = <<>>]
    ELSE LET permissions == Member(stateObj.attributes, "server_permissions")
         IN IF permissions.t = "arr"
              THEN IF Stringify(permissions) # Stringify(Arr(f.cur))
                     THEN [f EXCEPT !.cur = permissions.o, !.edit = <<>>, !.err = NoMsg]
                     ELSE f
              ELSE [f EXCEPT !.err = <<"'server_permissions' attribute missing or invalid.">>,
                             !.cur = <<>>, !.edit = <<>>]

\* _handleServerEntitySelection
EarlyHandleServerEntitySelection(entityId, h, f) ==
  IF entityId = f.sel /\ entityId # None THEN f
  ELSE IF entityId = None \/ ~h.defined
    THEN [f EXCEPT !.sel = None, !.cur = <<>>, !.edit = <<>>, !.err = NoMsg,
                   !.fb = PermSelectFeedback]
  ELSE LET reset == [f EXCEPT !.sel = entityId, !.fb = PermLoadingFeedback, !.err = NoMsg,
                              !.cur = <<>>, !.edit = <<>>]
       IN IF StateOf(h, entityId) # Absent
            THEN [EarlyLoadServerPermissions(StateOf(h, entityId), reset) EXCEPT !.fb = NoMsg]
            ELSE [reset EXCEPT !.err = <<"Selected entity ", entityId, " not found.">>,
                               !.fb = NoMsg]

\* set hass(hass)
EarlySetHassFields(h) ==
  IF ~h.defined THEN PermNow
  ELSE
    LET globalStateObj == StateOf(h, GlobalPlayersEntity)
        oldGlobalStateObj == StateOf(hass, GlobalPlayersEntity)
        f == IF globalStateObj # Absent /\ globalStateObj # oldGlobalStateObj
               THEN EarlyLoadGlobalPlayers(globalStateObj, PermNow)
               ELSE PermNow
        serverStateObj == StateOf(h, selected)
        oldServerStateObj == StateOf(hass, selected)
    IN IF selected = None THEN f
       ELSE IF /\ serverStateObj # Absent
               /\ \/ serverStateObj # oldServerStateObj
                  \/ Stringify(Member(serverStateObj.attributes, "server_permissions"))
                       # Stringify(Member(oldServerStateObj.attributes, "server_permissions"))
         THEN EarlyLoadServerPermissions(serverStateObj, f)
       ELSE IF serverStateObj = Absent /\ oldServerStateObj # Absent
         \* the message is built after the selection has been reset to null
         THEN [EarlyHandleServerEntitySelection(None, h, f) EXCEPT
                 !.err = <<"Server permissions entity ", None, " not found.">>]
       ELSE f

\* render(): the sections of the selected server are there (also while an
\* error is shown), the Stage This Player button is enabled
EarlyCanInteract == hass.defined /\ selected # None /\ ~_isLoading
EarlyCanStage == _newPlayerSelectedXUID # <<>> \/ _newPlayerManualXUID # <<>>

EarlySetHass(h) ==
  /\ card = "permissions-early"
  /\ hass' = h
  /\ PermWrite(EarlySetHassFields(h))
  /\ UNCHANGED <<notPerm, card, _isLoading, pending, _newPlayerSelectedXUID,
                 _newPlayerManualXUID, _newPlayerManualName, _newPlayerPermissionLevel>>

\* _handleServerEntitySelection, from the sensor selector (disabled while loading)
EarlyServerEntitySelection(entityId) ==
  /\ card = "permissions-early"
  /\ hass.defined /\ ~_isLoading
  /\ entityId # selected
  /\ PermWrite(EarlyHandleServerEntitySelection(entityId, hass, PermNow))
  /\ UNCHANGED <<notPerm, card, hass, _isLoading, pending, _newPlayerSelectedXUID,
                 _newPlayerManualXUID, _newPlayerManualName, _newPlayerPermissionLevel>>

\* _handlePermissionLevelChange, from the level select of a listed entry
EarlyHandlePermissionLevelChange(xuid, newLevel) ==
  /\ card = "permissions-early"
  /\ EarlyCanInteract
  /\ xuid \in PermBaselineXuids \cup PermStagedXuids
  /\ _editData' = SetKey(_editData, xuid, Str(<<newLevel>>))
  /\ _feedback' = NoMsg
  /\ _error' = NoMsg
  /\ UNCHANGED <<notPerm, card, hass, selected, _isLoading, pending, _currentServerPermissions,
                 _globalPlayers, _newPlayerSelectedXUID, _newPlayerManualXUID,
                 _newPlayerManualName, _newPlayerPermissionLevel>>

\* _handleNewPlayerSelectedXUIDChange, from the known-player select
EarlyHandleNewPlayerSelectedXUIDChange(value) ==
  /\ card = "permissions-early"
  /\ EarlyCanInteract /\ _newPlayerManualXUID = <<>>
  /\ value \in PermAvailableGlobalPlayers
  /\ _newPlayerSelectedXUID' = value
  /\ UNCHANGED <<notPerm, card, hass, selected, _isLoading, _error, _feedback, pending,
                 _currentServerPermissions, _editData, _globalPlayers, _newPlayerManualXUID,
                 _newPlayerManualName, _newPlayerPermissionLevel>>

\* _handleNewPlayerManualXUIDChange, from the XUID text field
EarlyHandleNewPlayerManualXUIDChange(value) ==
  /\ card = "permissions-early"
  /\ EarlyCanInteract /\ _newPlayerSelectedXUID = <<>>
  /\ _newPlayerManualXUID' = Trim(value)
  /\ UNCHANGED <<notPerm, card, hass, selected, _isLoading, _error, _feedback, pending,
                 _currentServerPermissions, _editData, _globalPlayers, _newPlayerSelectedXUID,
                 _newPlayerManualName, _newPlayerPermissionLevel>>

\* _handleNewPlayerManualNameChange, from the name text field
EarlyHandleNewPlayerManualNameChange(value) ==
  /\ card = "permissions-early"
  /\ EarlyCanInteract /\ _newPlayerSelectedXUID = <<>>
  /\ _newPlayerManualName' = value
  /\ UNCHANGED <<notPerm, card, hass, selected, _isLoading, _error, _feedback, pending,
                 _currentServerPermissions, _editData, _globalPlayers, _newPlayerSelectedXUID,
                 _newPlayerManualXUID, _newPlayerPermissionLevel>>

\* _handleNewPlayerPermissionLevelChange, from the level select of the form
EarlyHandleNewPlayerPermissionLevelChange(value) ==
  /\ card = "permissions-early"
  /\ EarlyCanInteract
  /\ _newPlayerPermissionLevel' = <<value>>
  /\ UNCHANGED <<notPerm, card, hass, selected, _isLoading, _error, _feedback, pending,
                 _currentServerPermissions, _editData, _globalPlayers, _newPlayerSelectedXUID,
                 _newPlayerManualXUID, _newPlayerManualName>>

\* _stageNewPlayerPermission, from the Stage This Player button
EarlyStageNewPlayerPermission ==
  /\ card = "permissions-early"
  /\ EarlyCanInteract /\ EarlyCanStage
  /\ LET known == _newPlayerSelectedXUID # <<>>
         xuidToAdd == IF known THEN _newPlayerSelectedXUID ELSE _newPlayerManualXUID
         nameForDisplay ==
           IF known
             THEN IF \E i \in 1..Len(_globalPlayers) :
                       Member(_globalPlayers[i], "xuid").s = xuidToAdd
                    THEN PermGlobalPlayerName(xuidToAdd)
                    ELSE <<"Unknown (from global)">>
           ELSE IF _newPlayerManualName # <<>> THEN _newPlayerManualName
           ELSE <<"XUID: ">> \o xuidToAdd
     IN IF ~IsValidPermission(Str(_newPlayerPermissionLevel))
          THEN /\ _error' = <<"Invalid permission level.">>
               /\ _newPlayerManualXUID' = IF known THEN <<>> ELSE _newPlayerManualXUID
               /\ UNCHANGED <<_editData, _feedback, _newPlayerSelectedXUID, _newPlayerManualName>>
          ELSE /\ _editData' = SetKey(_editData, xuidToAdd, Str(_newPlayerPermissionLevel))
               /\ _feedback' = <<"Staged permission for ">> \o nameForDisplay \o <<" (">>
                               \o xuidToAdd \o <<") to ">> \o _newPlayerPermissionLevel
                               \o <<". Click 'Save Changes'.">>
               /\ _error' = NoMsg
               /\ _newPlayerSelectedXUID' = <<>>
               /\ _newPlayerManualXUID' = <<>>
               /\ _newPlayerManualName' = <<>>
  /\ UNCHANGED <<notPerm, card, hass, selected, _isLoading, pending, _currentServerPermissions,
                 _globalPlayers, _newPlayerPermissionLevel>>

\* _savePermissions up to its await, from the Save All Staged Changes button
EarlySavePermissions ==
  /\ card = "permissions-early"
  /\ EarlyCanInteract /\ hasStagedChanges
  /\ Len(pending) < MaxInFlight
  /\ LET attribute == Member(StateOf(hass, selected).attributes, "device_id")
         targetDeviceId == IF Truthy(attribute) THEN attribute
                           ELSE IF Truthy(RegistryDeviceId(hass, selected))
                             THEN RegistryDeviceId(hass, selected)
                           ELSE Null
     IN IF ~Truthy(targetDeviceId)
          THEN /\ _error' = <<"Could not determine device ID for server entity ", selected,
                              ". Cannot save permissions.">>
               /\ UNCHANGED <<_isLoading, _feedback, pending>>
          ELSE /\ _isLoading' = TRUE
               /\ _error' = NoMsg
               /\ _feedback' = <<"Saving permissions...">>
               /\ pending' = Append(pending,
                    Call("service", "set_permissions",
                         Obj(<<Prop("device_id", targetDeviceId),
                               Prop("permissions", Obj(_editData))>>),
                         NoMsg, Null))
  /\ UNCHANGED <<notPerm, card, hass, selected, permVars>>

\* hass.callService resolved
EarlyCallServiceResolved(i) ==
  /\ card = "permissions-early"
  /\ i \in 1..Len(pending)
  /\ pending' = Without(pending, i)
  /\ _feedback' = <<"Permissions update requested. List will refresh on next data poll from the server.">>
  /\ _editData' = <<>>
  /\ _isLoading' = FALSE
  /\ UNCHANGED <<notPerm, card, hass, selected, _error, _currentServerPermissions, _globalPlayers,
                 _newPlayerSelectedXUID, _newPlayerManualXUID, _newPlayerManualName,
                 _newPlayerPermissionLevel>>

\* hass.callService rejected
EarlyCallServiceRejected(i, err) ==
  /\ card = "permissions-early"
  /\ i \in 1..Len(pending)
  /\ pending' = Without(pending, i)
  /\ _error' = <<"Error saving permissions: ">>
               \o (IF err.t = "error" /\ err.s # <<>> THEN err.s
                   ELSE IF Truthy(Member(err, "message")) THEN JsString(Member(err, "message"))
                   ELSE <<"Unknown error. Check Home Assistant logs.">>)
  /\ _feedback' = NoMsg
  /\ _isLoading' = FALSE
  /\ UNCHANGED <<notPerm, card, hass, selected, permVars>>

EarlyInit ==
  /\ card = "permissions-early"
  /\ hass = NoHass
  /\ selected = None
  /\ _isLoading = FALSE
  /\ _error = NoMsg
  /\ _feedback = PermSelectFeedback
  /\ pending = <<>>
  /\ Constructed

EarlyNext ==
  \/ \E h \in PermHassSet : EarlySetHass(h)
  \/ \E e \in Entities \cup {None} : EarlyServerEntitySelection(e)
  \/ \E x \in PermBaselineXuids \cup PermStagedXuids, l \in {"member", "operator"} :
       EarlyHandlePermissionLevelChange(x, l)
  \/ \E x \in PermAvailableGlobalPlayers : EarlyHandleNewPlayerSelectedXUIDChange(x)
  \/ \E x \in PermTypedXuids : EarlyHandleNewPlayerManualXUIDChange(x)
  \/ \E n \in PermTypedNames : EarlyHandleNewPlayerManualNameChange(n)
  \/ \E l \in PermPickedLevels : EarlyHandleNewPlayerPermissionLevelChange(l)
  \/ EarlyStageNewPlayerPermission
  \/ EarlySavePermissions
  \/ \E i \in 1..MaxInFlight : EarlyCallServiceResolved(i)
  \/ \E i \in 1..MaxInFlight, err \in RemoteFailures : EarlyCallServiceRejected(i, err)

SpecEarlyPerm == EarlyInit /\ [][EarlyNext]_vars

(***************************************************************************)
(* Allowlist card (bsm-allowlist-card.js)                                  *)
(***************************************************************************)
_initialFeedbackMessage == <<"Select a server's allowlist sensor.">>

AllowFields(sel, cur, name, ign, err, fb) ==
  [sel |-> sel, cur |-> cur, name |-> name, ign |-> ign, err |-> err, fb |-> fb]
AllowNow ==
  AllowFields(selected, _currentAllowlist, _newPlayerName, _addIgnoresLimit, _error, _feedback)
AllowWrite(f) ==
  /\ selected' = f.sel
  /\ _currentAllowlist' = f.cur
  /\ _newPlayerName' = f.name
  /\ _addIgnoresLimit' = f.ign
  /\ _error' = f.err
  /\ _feedback' = f.fb

\* _resetSelectionRelatedState(feedbackMessage, error)
AllowResetSelectionRelatedState(f, feedbackMessage, error) ==
  [f EXCEPT !.cur = <<>>, !.name = <<>>, !.ign = FALSE, !.err = error, !.fb = feedbackMessage]

\* _loadAllowlist
_loadAllowlist(stateObj, f) ==
  IF stateObj.attributes.t = "null"
    THEN [f EXCEPT !.err = <<"Selected sensor (", stateObj.entity_id,
                             ") has no attributes needed for allowlist.">>,
                   !.fb = NoMsg, !.cur = <<>>]
    ELSE LET allowlist == Member(stateObj.attributes, "allowed_players")
         IN IF Truthy(allowlist) /\ allowlist.t = "arr"
              THEN IF Stringify(allowlist) # Stringify(Arr(f.cur))
                     THEN [f EXCEPT !.cur = allowlist.o, !.err = NoMsg]
                     ELSE f
              ELSE [f EXCEPT !.err = <<"'allowed_players' attribute missing or invalid on selected sensor (",
                                       stateObj.entity_id, ").">>,
                             !.fb = NoMsg, !.cur = <<>>]

\* set hass(hass)
AllowSetHassFields(h) ==
  IF ~h.defined THEN AllowNow
  ELSE IF selected # None
    THEN LET stateObj == StateOf(h, selected)
             oldStateObj == StateOf(hass, selected)
         IN IF stateObj # Absent
              THEN IF \/ stateObj # oldStateObj
                      \/ Stringify(Coalesce(Member(stateObj.attributes, "allowed_players"), Null))
                           # Stringify(Coalesce(Member(oldStateObj.attributes, "allowed_players"), Null))
                     THEN _loadAllowlist(stateObj, AllowNow)
                     ELSE AllowNow
            ELSE IF oldStateObj # Absent \/ (~IsSet(_error) /\ _feedback # _initialFeedbackMessage)
              THEN AllowResetSelectionRelatedState(AllowNow, NoMsg,
                     <<"Status entity ", selected, " is no longer available or could not be found.">>)
            ELSE AllowNow
  ELSE LET isDefaultState == /\ Len(_currentAllowlist) = 0
                             /\ ~IsSet(_error)
                             /\ (_feedback = _initialFeedbackMessage \/ ~IsSet(_feedback))
       IN IF ~isDefaultState
            THEN AllowResetSelectionRelatedState(AllowNow, _initialFeedbackMessage, NoMsg)
            ELSE AllowNow

\* _getTargetDeviceId: the device_id attribute first, the entity registry second
AllowGetTargetDeviceId ==
  IF ~hass.defined \/ selected = None THEN Null
  ELSE LET deviceIdFromAttr == Member(StateOf(hass, selected).attributes, "device_id")
           deviceIdFromRegistry == RegistryDeviceId(hass, selected)
       IN IF IsStr(deviceIdFromAttr) /\ Trim(deviceIdFromAttr.s) # <<>>
            THEN Str(Trim(deviceIdFromAttr.s))
          ELSE IF IsStr(deviceIdFromRegistry) /\ Trim(deviceIdFromRegistry.s) # <<>>
            THEN Str(Trim(deviceIdFromRegistry.s))
          ELSE Null

\* message extraction of _callService's catch block (no `message` field case)
AllowErrorMessage(err, unknown) ==
  IF err.t = "error" THEN err.s
  ELSE IF err.t = "obj" /\ Truthy(Member(err, "error")) THEN JsString(Member(err, "error"))
  ELSE IF err.t = "str" THEN err.s
  ELSE unknown

\* Array.prototype.includes on the allowlist
AllowIncludes(list, playerName) == \E i \in 1..Len(list) : list[i] = Str(playerName)

\* render(): the allowlist and add-player sections are there
AllowSectionShown == hass.defined /\ selected # None /\ ~IsSet(_error) /\ ~_isLoading

\* host objects handed to the allowlist card
A1 == Arr(<<Str(<<"A", "l">>)>>)
A2 == Arr(<<Str(<<"A", "l">>), Str(<<"B", "o">>)>>)
AllowAttributes(a, d) == Obj(<<Prop("allowed_players", a), Prop("device_id", d)>>)
AllowHassOf(a, r) ==
  Hass([e \in Entities |->
          IF e = "sensor.a" THEN a
          ELSE StateObj(e, Obj(<<Prop("allowed_players", Arr(<<>>))>>), 1)],
       [e \in Entities |-> IF e = "sensor.a" THEN r ELSE Str(<<"r", "b">>)])
AllowHassSet ==
  {NoHass}
    \cup {AllowHassOf(StateObj("sensor.a", AllowAttributes(A1, d), 1), r) :
            r \in RegDeviceIds, d \in AttrDeviceIds}
    \cup {AllowHassOf(a, Str(<<" ", "r", "1", " ">>)) :
            a \in {Absent, StateObj("sensor.a", Null, 1),
                   StateObj("sensor.a", AllowAttributes(Null, Str(<<"a", "1">>)), 1),
                   StateObj("sensor.a", AllowAttributes(A1, Str(<<"a", "1">>)), 2),
                   StateObj("sensor.a", AllowAttributes(A2, Str(<<"a", "1">>)), 1)}}
\* the names a Remove button can stand for
AllowListedNames == {<<"A", "l">>, <<"B", "o">>}
\* what the user types into the add field
AllowTypedNames == {<<>>, <<"A", "l">>, <<" ", "B", "o">>}

AllowSetHass(h) ==
  /\ card = "allowlist"
  /\ hass' = h
  /\ AllowWrite(AllowSetHassFields(h))
  /\ UNCHANGED <<notAllow, card, _isLoading, pending>>

\* _handleEntitySelection, from the sensor selector (enabled also while loading)
AllowHandleEntitySelection(entityId) ==
  /\ card = "allowlist"
  /\ hass.defined
  /\ entityId # selected
  /\ LET f == [AllowNow EXCEPT !.sel = entityId]
     IN AllowWrite(
          IF entityId = None
            THEN AllowResetSelectionRelatedState(f, _initialFeedbackMessage, NoMsg)
          ELSE IF StateOf(hass, entityId) # Absent
            THEN LET g == _loadAllowlist(StateOf(hass, entityId),
                            AllowResetSelectionRelatedState(f, <<"Loading allowlist...">>, NoMsg))
                 IN IF ~IsSet(g.err) THEN [g EXCEPT !.fb = NoMsg] ELSE g
          ELSE AllowResetSelectionRelatedState(f, NoMsg,
                 <<"Selected entity ", entityId, " could not be found. Please check the entity ID.">>))
  /\ UNCHANGED <<notAllow, card, hass, _isLoading, pending>>

\* _handleAddInput, from the add field
AllowHandleAddInput(value) ==
  /\ card = "allowlist"
  /\ AllowSectionShown
  /\ _newPlayerName' = value
  /\ _error' = IF IsSet(_error) THEN NoMsg ELSE _error
  /\ UNCHANGED <<notAllow, card, hass, selected, _isLoading, _feedback, pending,
                 _currentAllowlist, _addIgnoresLimit>>

\* _handleIgnoreLimitToggle, from the switch
AllowHandleIgnoreLimitToggle(checked) ==
  /\ card = "allowlist"
  /\ AllowSectionShown
  /\ _addIgnoresLimit' = checked
  /\ UNCHANGED <<notAllow, card, hass, selected, _isLoading, _error, _feedback, pending,
                 _currentAllowlist, _newPlayerName>>

\* _callService up to its await
AllowCallService(serviceName, serviceData, operationFeedback, success) ==
  /\ _isLoading' = TRUE
  /\ _error' = NoMsg
  /\ _feedback' = operationFeedback
  /\ pending' = Append(pending, Call("service", serviceName, serviceData, success, Null))

\* render(): the Add button is shown and enabled
canAddToAllowlist ==
  /\ AllowSectionShown
  /\ Trim(_newPlayerName) # <<>> /\ ~AllowIncludes(_currentAllowlist, Trim(_newPlayerName))

\* a variant that does not look the name up in the allowlist
_addPlayerUnlisted ==
  /\ LET targetDeviceId == AllowGetTargetDeviceId
         playerName == Trim(_newPlayerName)
     IN IF ~Truthy(targetDeviceId)
          THEN /\ _error' = <<"Cannot add player: Target device ID for the selected server is missing or invalid. Please check the sensor entity's configuration and attributes in Home Assistant.">>
               /\ _feedback' = NoMsg
               /\ UNCHANGED <<_isLoading, pending>>
        ELSE IF playerName = <<>>
          THEN /\ _error' = <<"Please enter a player name to add.">>
               /\ _feedback' = NoMsg
               /\ UNCHANGED <<_isLoading, pending>>
        ELSE AllowCallService("add_to_allowlist",
               Obj(<<Prop("device_id", targetDeviceId),
                     Prop("players", Arr(<<Str(playerName)>>)),
                     Prop("ignores_player_limit", Bool(_addIgnoresLimit))>>),
               <<"Adding '">> \o playerName \o <<"'...">>,
               <<"Request sent to add '">> \o playerName
                 \o <<"'. The allowlist will update shortly via sensor state.">>)
  /\ UNCHANGED <<notAllow, card, hass, selected, allowVars>>

\* _addPlayer up to the await of _callService
_addPlayer ==
  /\ LET targetDeviceId == AllowGetTargetDeviceId
         playerName == Trim(_newPlayerName)
     IN IF ~Truthy(targetDeviceId)
          THEN /\ _error' = <<"Cannot add player: Target device ID for the selected server is missing or invalid. Please check the sensor entity's configuration and attributes in Home Assistant.">>
               /\ _feedback' = NoMsg
               /\ UNCHANGED <<_isLoading, pending>>
        ELSE IF playerName = <<>>
          THEN /\ _error' = <<"Please enter a player name to add.">>
               /\ _feedback' = NoMsg
               /\ UNCHANGED <<_isLoading, pending>>
        ELSE IF AllowIncludes(_currentAllowlist, playerName)
          THEN /\ _error' = <<"'">> \o playerName \o <<"' is already on the allowlist.">>
               /\ _feedback' = NoMsg
               /\ UNCHANGED <<_isLoading, pending>>
        ELSE AllowCallService("add_to_allowlist",
               Obj(<<Prop("device_id", targetDeviceId),
                     Prop("players", Arr(<<Str(playerName)>>)),
                     Prop("ignores_player_limit", Bool(_addIgnoresLimit))>>),
               <<"Adding '">> \o playerName \o <<"'...">>,
               <<"Request sent to add '">> \o playerName
                 \o <<"'. The allowlist will update shortly via sensor state.">>)
  /\ UNCHANGED <<notAllow, card, hass, selected, allowVars>>

\* _addPlayer, from the Add button
AllowAddPlayer ==
  /\ card = "allowlist"
  /\ canAddToAllowlist
  /\ Len(pending) < MaxInFlight
  /\ _addPlayer

\* _addPlayer called on an idle card while render() does not offer its button
\* enabled (the handler holds its own checks of the device and the name)
AllowAddPlayerUnrendered ==
  /\ card = "allowlist"
  /\ ~_isLoading /\ ~canAddToAllowlist
  /\ Len(pending) < MaxInFlight
  /\ _addPlayer

\* _removePlayer up to the await of _callService, from a Remove button
AllowRemovePlayer(playerName) ==
  /\ card = "allowlist"
  /\ AllowSectionShown
  /\ AllowIncludes(_currentAllowlist, playerName) /\ playerName # <<>>
  /\ Len(pending) < MaxInFlight
  /\ LET targetDeviceId == AllowGetTargetDeviceId
     IN IF ~Truthy(targetDeviceId)
          THEN /\ _error' = <<"Cannot remove player: Target device ID for the selected server is missing or invalid. Please check the sensor entity's configuration and attributes in Home Assistant.">>
               /\ _feedback' = NoMsg
               /\ UNCHANGED <<_isLoading, pending>>
        ELSE AllowCallService("remove_from_allowlist",
               Obj(<<Prop("device_id", targetDeviceId), Prop("player_name", Str(playerName))>>),
               <<"Removing '">> \o playerName \o <<"'...">>,
               <<"Request sent to remove '">> \o playerName
                 \o <<"'. The allowlist will update shortly via sensor state.">>)
  /\ UNCHANGED <<notAllow, card, hass, selected, allowVars>>

\* _callService resolved, then the rest of _addPlayer or _removePlayer
AllowCallServiceResolved(i) ==
  /\ card = "allowlist"
  /\ i \in 1..Len(pending)
  /\ pending' = Without(pending, i)
  /\ _isLoading' = FALSE
  /\ _feedback' = pending[i].feedback
  /\ _newPlayerName' = IF pending[i].service = "add_to_allowlist" THEN <<>> ELSE _newPlayerName
  /\ UNCHANGED <<notAllow, card, hass, selected, _error, _currentAllowlist, _addIgnoresLimit>>

\* _callService rejected
AllowCallServiceRejected(i, err) ==
  /\ card = "allowlist"
  /\ i \in 1..Len(pending)
  /\ pending' = Without(pending, i)
  /\ _isLoading' = FALSE
  /\ _error' = <<"Error performing operation: ">>
               \o AllowErrorMessage(err, <<"An unknown error occurred. Check Home Assistant logs.">>)
  /\ _feedback' = NoMsg
  /\ UNCHANGED <<notAllow, card, hass, selected, allowVars>>

AllowInit ==
  /\ card = "allowlist"
  /\ hass = NoHass
  /\ selected = None
  /\ _isLoading = FALSE
  /\ _error = NoMsg
  /\ _feedback = _initialFeedbackMessage
  /\ pending = <<>>
  /\ Constructed

AllowNext ==
  \/ \E h \in AllowHassSet : AllowSetHass(h)
  \/ \E e \in Entities \cup {None} : AllowHandleEntitySelection(e)
  \/ \E n \in AllowTypedNames : AllowHandleAddInput(n)
  \/ \E b \in BOOLEAN : AllowHandleIgnoreLimitToggle(b)
  \/ AllowAddPlayer
  \/ \E n \in AllowListedNames : AllowRemovePlayer(n)
  \/ \E i \in 1..MaxInFlight : AllowCallServiceResolved(i)
  \/ \E i \in 1..MaxInFlight, err \in RemoteFailures : AllowCallServiceRejected(i, err)

SpecAllow == AllowInit /\ [][AllowNext]_vars

(***************************************************************************)
(* Restore card (bsm-restore-card.js)                                      *)
(***************************************************************************)
BACKUP_LIST_ATTRIBUTE_CANDIDATES ==
  <<"world_backups_list", "config_backups_list", "backup_files", "files", "backups_list", "backups">>

\* the card's two revisions: bsm-restore-card.js and the one with categorized
\* backups
RestoreCards == {"restore", "restore-categorized"}

World == Str(<<"w", "o", "r", "l", "d">>)
ConfigType == Str(<<"c", "o", "n", "f", "i", "g">>)
Unknown == Str(<<"u", "n", "k", "n", "o", "w", "n">>)

RestoreSelectFeedback == <<"Select a server's backup list sensor.">>

RestoreFields(sel, name, type, list, file, dev, err, fb) ==
  [sel |-> sel, name |-> name, type |-> type, list |-> list, file |-> file, dev |-> dev,
   err |-> err, fb |-> fb]
RestoreNow ==
  RestoreFields(selected, _serverDisplayName, _backupType, _availableBackups,
                _selectedBackupFile, _targetDeviceId, _error, _feedback)
RestoreWrite(f) ==
  /\ selected' = f.sel
  /\ _serverDisplayName' = f.name
  /\ _backupType' = f.type
  /\ _availableBackups' = f.list
  /\ _selectedBackupFile' = f.file
  /\ _targetDeviceId' = f.dev
  /\ _error' = f.err
  /\ _feedback' = f.fb

\* _processSelectedSensor, step 1: the target device id, registry first
RestoreDeviceId(stateObj, h) ==
  LET regDeviceId == RegistryDeviceId(h, stateObj.entity_id)
      attrDeviceId == Member(stateObj.attributes, "device_id")
  IN IF Truthy(regDeviceId) /\ IsStr(regDeviceId) /\ Trim(regDeviceId.s) # <<>>
       THEN Str(Trim(regDeviceId.s))
     ELSE IF Truthy(attrDeviceId) /\ IsStr(attrDeviceId) /\ Trim(attrDeviceId.s) # <<>>
       THEN Str(Trim(attrDeviceId.s))
     ELSE Null

\* friendly_name || entityId.split('.').pop() || fallback
NameOrObjectId(stateObj, fallback) ==
  LET friendly == Member(stateObj.attributes, "friendly_name")
  IN IF Truthy(friendly) THEN JsString(friendly)
     ELSE IF ObjectId(stateObj.entity_id) # <<>> THEN ObjectId(stateObj.entity_id)
     ELSE fallback

\* _processSelectedSensor, step 2: the attribute holding the list ("" when
\* there is none) and the backup type
RestoreListAttributeName(stateObj) ==
  LET attributes == stateObj.attributes
  IN IF Member(attributes, "world_backups_list").t = "arr" THEN "world_backups_list"
     ELSE IF Member(attributes, "config_backups_list").t = "arr" THEN "config_backups_list"
     ELSE FirstCandidate(attributes, BACKUP_LIST_ATTRIBUTE_CANDIDATES, FALSE)
RestoreDeterminedBackupType(stateObj) ==
  LET nameHint == ToLowerCase(NameOrObjectId(stateObj, <<>>))
  IN IF Member(stateObj.attributes, "world_backups_list").t = "arr" THEN World
     ELSE IF Member(stateObj.attributes, "config_backups_list").t = "arr" THEN ConfigType
     ELSE IF RestoreListAttributeName(stateObj) = "" THEN Unknown
     ELSE IF Includes(nameHint, World.s) THEN World
     ELSE IF Includes(nameHint, ConfigType.s) THEN ConfigType
     ELSE Unknown

\* _processSelectedSensor, step 3: the server display name
WorldBackupsSuffix == <<" ", "w", "o", "r", "l", "d", " ", "b", "a", "c", "k", "u", "p", "s">>
ConfigBackupsSuffix == <<" ", "c", "o", "n", "f", "i", "g", " ", "b", "a", "c", "k", "u", "p", "s">>
BackupsSuffix == <<" ", "b", "a", "c", "k", "u", "p", "s">>
SensorSuffix == <<" ", "s", "e", "n", "s", "o", "r">>
RestoreDisplayName(stateObj, backupType) ==
  LET displayName == NameOrObjectId(stateObj, <<"Unknown Server">>)
      lower == ToLowerCase(displayName)
      cut == IF backupType = World /\ EndsWith(lower, WorldBackupsSuffix)
               THEN DropLast(displayName, Len(WorldBackupsSuffix))
             ELSE IF backupType = ConfigType /\ EndsWith(lower, ConfigBackupsSuffix)
               THEN DropLast(displayName, Len(ConfigBackupsSuffix))
             ELSE IF EndsWith(lower, BackupsSuffix)
               THEN DropLast(displayName, Len(BackupsSuffix))
             ELSE displayName
  IN Str(Trim(IF EndsWith(ToLowerCase(cut), SensorSuffix) THEN DropLast(cut, Len(SensorSuffix)) ELSE cut))

\* the revision with categorized backups: _processSelectedSensor, steps 2 and 3
CategorizedCandidates ==
  <<"world_backups_list", "properties_backups_list", "allowlist_backups_list",
    "permissions_backups_list", "config_backups_list", "backups", "backup_files", "files",
    "backups_list">>

PropertiesType == Str(<<"p", "r", "o", "p", "e", "r", "t", "i", "e", "s">>)
AllowlistType == Str(<<"a", "l", "l", "o", "w", "l", "i", "s", "t">>)
PermissionsType == Str(<<"p", "e", "r", "m", "i", "s", "s", "i", "o", "n", "s">>)
AllType == Str(<<"a", "l", "l">>)

BACKUP_TYPE_DISPLAY_NAMES ==
  <<KeyedProp(World.s, Str(<<"W", "o", "r", "l", "d">>)),
    KeyedProp(PropertiesType.s, Str(<<"P", "r", "o", "p", "e", "r", "t", "i", "e", "s">>)),
    KeyedProp(AllowlistType.s, Str(<<"A", "l", "l", "o", "w", "l", "i", "s", "t">>)),
    KeyedProp(PermissionsType.s, Str(<<"P", "e", "r", "m", "i", "s", "s", "i", "o", "n", "s">>)),
    KeyedProp(ConfigType.s, Str(<<"C", "o", "n", "f", "i", "g", "u", "r", "a", "t", "i", "o", "n">>)),
    KeyedProp(AllType.s, Str(<<"A", "l", "l", " ", "B", "a", "c", "k", "u", "p", "s", " ", "(", "C", "a", "t", "e", "g", "o", "r", "i", "z", "e", "d", ")">>))>>

\* String.prototype.indexOf, counted from 1 (0 when part does not occur)
IndexOf(chars, part) ==
  LET at == {i \in 1..(Len(chars) - Len(part) + 1) : SubSeq(chars, i, i + Len(part) - 1) = part}
  IN IF at = {} THEN 0 ELSE CHOOSE i \in at : \A j \in at : i <= j
\* \w of a regular expression
IsWordChar(c) ==
  \/ IndexIn(c, UpperCaseLetters) > 0 \/ IndexIn(c, LowerCaseLetters) > 0
  \/ c \in {"0", "1", "2", "3", "4", "5", "6", "7", "8", "9", "_"}
\* category.replace(/_backups$/, '').replace(/_/, ' ').replace(/\b\w/g, l => l.toUpperCase())
BackupsKeySuffix == <<"_", "b", "a", "c", "k", "u", "p", "s">>
DisplayCategory(category) ==
  LET stripped == IF EndsWith(category, BackupsKeySuffix)
                    THEN DropLast(category, Len(BackupsKeySuffix)) ELSE category
      underscore == IndexOf(stripped, <<"_">>)
      spaced == IF underscore = 0 THEN stripped ELSE [stripped EXCEPT ![underscore] = " "]
  IN [i \in 1..Len(spaced) |->
        IF IsWordChar(spaced[i]) /\ (i = 1 \/ ~IsWordChar(spaced[i - 1]))
          THEN ToUpperCase(<<spaced[i]>>)[1] ELSE spaced[i]]
CategorySeparator == <<":", " ">>
\* the combined list of a categorized dictionary: "<Category>: <file>" for
\* every file name of every category that holds an array, in key order
RECURSIVE CategorizedBackups(_)
CategorizedBackups(categories) ==
  IF categories = <<>> THEN <<>>
  ELSE LET category == Head(categories)
           files == IF category.v.t = "arr" THEN SelectSeq(category.v.o, IsFileName) ELSE <<>>
       IN [i \in 1..Len(files) |->
             Str(DisplayCategory(category.k) \o CategorySeparator \o files[i].s)]
            \o CategorizedBackups(Tail(categories))

\* _processSelectedSensor, step 2
CategorizedListAttributeName(stateObj) ==
  IF Member(stateObj.attributes, "backups").t \in {"obj", "arr"} THEN "backups"
  ELSE FirstCandidate(stateObj.attributes, CategorizedCandidates, FALSE)
CategorizedFoundBackupList(stateObj) ==
  LET genericBackupsAttr == Member(stateObj.attributes, "backups")
  IN IF genericBackupsAttr.t = "obj" THEN Arr(CategorizedBackups(genericBackupsAttr.o))
     ELSE Member(stateObj.attributes, CategorizedListAttributeName(stateObj))
CategorizedDeterminedBackupType(stateObj) ==
  LET genericBackupsAttr == Member(stateObj.attributes, "backups")
      nameHint == ToLowerCase(NameOrObjectId(stateObj, <<>>))
      attrKey == CategorizedListAttributeName(stateObj)
  IN IF genericBackupsAttr.t = "obj" THEN AllType
     ELSE IF genericBackupsAttr.t = "arr"
       THEN IF Includes(nameHint, World.s) THEN World
            ELSE IF Includes(nameHint, PropertiesType.s) THEN PropertiesType
            ELSE IF Includes(nameHint, AllowlistType.s) THEN AllowlistType
            ELSE IF Includes(nameHint, PermissionsType.s) THEN PermissionsType
            ELSE Unknown
     \* attrKey.includes("world") and so on, for the candidate keys
     ELSE CASE attrKey = "world_backups_list" -> World
            [] attrKey = "properties_backups_list" -> PropertiesType
            [] attrKey = "allowlist_backups_list" -> AllowlistType
            [] attrKey = "permissions_backups_list" -> PermissionsType
            [] OTHER -> Unknown

\* _processSelectedSensor, step 3: the first display name whose
\* / <display name> Backups$/i matches is cut off; the parentheses of the last
\* display name are a group of the regular expression
DisplayNamePattern(displayPart) ==
  <<" ">> \o ToLowerCase(SelectSeq(displayPart, LAMBDA c : c \notin {"(", ")"})) \o BackupsSuffix
RECURSIVE CutDisplayName(_, _)
CutDisplayName(displayName, names) ==
  IF names = <<>> THEN displayName
  ELSE IF EndsWith(ToLowerCase(displayName), DisplayNamePattern(Head(names).v.s))
    THEN DropLast(displayName, Len(DisplayNamePattern(Head(names).v.s)))
  ELSE CutDisplayName(displayName, Tail(names))
CategorizedDisplayName(stateObj) ==
  LET cut == CutDisplayName(NameOrObjectId(stateObj, <<"Unknown Server">>), BACKUP_TYPE_DISPLAY_NAMES)
  IN Str(Trim(IF EndsWith(ToLowerCase(cut), SensorSuffix) THEN DropLast(cut, Len(SensorSuffix)) ELSE cut))

\* a variant that keeps the selected file when the list changes
_processSelectedSensorKeepingFile(stateObj, h, f) ==
  IF stateObj.attributes.t = "null"
    THEN [f EXCEPT !.err = <<"Sensor ", stateObj.entity_id, " has no attributes.">>, !.fb = NoMsg]
    ELSE
      LET categorized == card = "restore-categorized"
          listAttributeName == IF categorized THEN CategorizedListAttributeName(stateObj)
                               ELSE RestoreListAttributeName(stateObj)
          foundBackupList == IF categorized THEN CategorizedFoundBackupList(stateObj)
                             ELSE Member(stateObj.attributes, listAttributeName)
          sortedBackups == Sort(SelectSeq(foundBackupList.o, IsFileName), TRUE)
          changed == Stringify(Arr(sortedBackups)) # Stringify(Arr(f.list))
          list == IF changed THEN sortedBackups ELSE f.list
          g == IF listAttributeName # ""
                 THEN [f EXCEPT !.type = IF categorized THEN CategorizedDeterminedBackupType(stateObj)
                                          ELSE RestoreDeterminedBackupType(stateObj),
                                !.list = list,
                                !.file = f.file,
                                !.err = NoMsg,
                                !.fb = IF Len(list) = 0
                                         THEN <<"No valid backup files found in attribute '",
                                                listAttributeName, "'.">>
                                         ELSE NoMsg]
                 ELSE [f EXCEPT !.type = Null, !.list = <<>>, !.file = <<>>,
                                !.err = <<"Could not find a recognized backup list attribute on ",
                                          stateObj.entity_id, ". Checked: ">>
                                        \o Join(IF categorized THEN CategorizedCandidates
                                        ELSE BACKUP_LIST_ATTRIBUTE_CANDIDATES, ", ") \o <<".">>,
                                !.fb = NoMsg]
      IN [g EXCEPT !.dev = RestoreDeviceId(stateObj, h),
                   !.name = IF categorized THEN CategorizedDisplayName(stateObj)
                            ELSE RestoreDisplayName(stateObj, g.type)]
\* _processSelectedSensor
_processSelectedSensor(stateObj, h, f) ==
  IF stateObj.attributes.t = "null"
    THEN [f EXCEPT !.err = <<"Sensor ", stateObj.entity_id, " has no attributes.">>, !.fb = NoMsg]
    ELSE
      LET categorized == card = "restore-categorized"
          listAttributeName == IF categorized THEN CategorizedListAttributeName(stateObj)
                               ELSE RestoreListAttributeName(stateObj)
          foundBackupList == IF categorized THEN CategorizedFoundBackupList(stateObj)
                             ELSE Member(stateObj.attributes, listAttributeName)
          sortedBackups == Sort(SelectSeq(foundBackupList.o, IsFileName), TRUE)
          changed == Stringify(Arr(sortedBackups)) # Stringify(Arr(f.list))
          list == IF changed THEN sortedBackups ELSE f.list
          g == IF listAttributeName # ""
                 THEN [f EXCEPT !.type = IF categorized THEN CategorizedDeterminedBackupType(stateObj)
                                          ELSE RestoreDeterminedBackupType(stateObj),
                                !.list = list,
                                !.file = IF ~changed THEN f.file
                                         ELSE IF Len(sortedBackups) > 0 THEN sortedBackups[1].s
                                         ELSE <<>>,
                                !.err = NoMsg,
                                !.fb = IF Len(list) = 0
                                         THEN <<"No valid backup files found in attribute '",
                                                listAttributeName, "'.">>
                                         ELSE NoMsg]
                 ELSE [f EXCEPT !.type = Null, !.list = <<>>, !.file = <<>>,
                                !.err = <<"Could not find a recognized backup list attribute on ",
                                          stateObj.entity_id, ". Checked: ">>
                                        \o Join(IF categorized THEN CategorizedCandidates
                                        ELSE BACKUP_LIST_ATTRIBUTE_CANDIDATES, ", ") \o <<".">>,
                                !.fb = NoMsg]
      IN [g EXCEPT !.dev = RestoreDeviceId(stateObj, h),
                   !.name = IF categorized THEN CategorizedDisplayName(stateObj)
                            ELSE RestoreDisplayName(stateObj, g.type)]

\* _handleSensorSelection
_handleSensorSelection(entityId, h, f) ==
  IF entityId = f.sel THEN f
  ELSE LET reset == [f EXCEPT !.sel = entityId, !.name = Null, !.type = Null, !.list = <<>>,
                              !.file = <<>>, !.dev = Null, !.err = NoMsg]
       IN IF entityId = None THEN [reset EXCEPT !.fb = RestoreSelectFeedback]
          ELSE IF h.defined /\ StateOf(h, entityId) # Absent
            THEN _processSelectedSensor(StateOf(h, entityId), h,
                   [reset EXCEPT !.fb = <<"Processing sensor ", entityId, "...">>])
          ELSE IF h.defined THEN [reset EXCEPT !.fb = <<"Waiting for sensor data...">>]
          ELSE [reset EXCEPT !.fb = <<"Waiting for Home Assistant data...">>]

\* set hass(hass)
RestoreSetHassFields(h) ==
  IF ~h.defined \/ selected = None THEN RestoreNow
  ELSE LET stateObj == StateOf(h, selected)
           oldStateObj == StateOf(hass, selected)
       IN IF /\ stateObj # Absent
             /\ \/ stateObj # oldStateObj
                \/ Stringify(stateObj.attributes) # Stringify(oldStateObj.attributes)
            THEN _processSelectedSensor(stateObj, h, RestoreNow)
          ELSE IF stateObj = Absent /\ oldStateObj # Absent
            \* the message is built after the selection has been reset to null
            THEN [_handleSensorSelection(None, h, RestoreNow) EXCEPT
                    !.err = <<"Selected sensor ", None, " is no longer available.">>]
          ELSE RestoreNow

\* render(): canRestoreSelected, canRestoreLatestAll and what is shown
RestoreTypeSectionShown ==
  hass.defined /\ selected # None /\ ~IsSet(_error) /\ Truthy(_backupType)
  /\ Len(_availableBackups) > 0
\* a variant that takes the sentinel for a type
backupTypeKnownButSentinel == Truthy(_backupType)
\* this._backupType && this._backupType !== "unknown"
backupTypeKnown == Truthy(_backupType) /\ _backupType # Unknown
canRestoreSelected ==
  /\ ~_isLoading /\ _selectedBackupFile # <<>>
  /\ backupTypeKnown
  /\ Truthy(_targetDeviceId)
\* a variant that stays enabled while loading
canRestoreLatestAllWhileLoading == Truthy(_targetDeviceId)
canRestoreLatestAll == ~_isLoading /\ Truthy(_targetDeviceId)

\* host objects handed to the restore card
W1 == Str(<<"w", "1">>)
W2 == Str(<<"w", "2">>)
K1 == Str(<<"c", "1">>)
SrvWorldBackups == Str(<<"S", "r", "v", " ", "W", "o", "r", "l", "d", " ", "B", "a", "c", "k", "u", "p", "s">>)
RestoreAttributes ==
  {Obj(<<Prop("world_backups_list", Arr(<<Str(<<" ">>), W1>>)), Prop("device_id", Str(<<"a", "1">>))>>),
   Obj(<<Prop("config_backups_list", Arr(<<K1>>)), Prop("world_backups_list", Arr(<<W1>>)),
         Prop("device_id", Str(<<"a", "1">>))>>),
   Obj(<<Prop("files", Arr(<<W1>>)), Prop("config_backups_list", Arr(<<K1>>)),
         Prop("device_id", Str(<<"a", "1">>))>>),
   Obj(<<Prop("files", Arr(<<W1>>)), Prop("friendly_name", SrvWorldBackups)>>),
   Obj(<<Prop("backups", Arr(<<W2>>)), Prop("files", Arr(<<W1>>))>>),
   Obj(<<Prop("backups", Arr(<<>>))>>),
   Obj(<<Prop("friendly_name", SrvWorldBackups)>>)}
RestoreHassOf(a, r) ==
  Hass([e \in Entities |->
          IF e = "sensor.a" THEN a
          ELSE StateObj(e, Obj(<<Prop("config_backups_list", Arr(<<K1>>))>>), 1)],
       [e \in Entities |-> IF e = "sensor.a" THEN r ELSE Str(<<"r", "b">>)])
RestoreHassSet ==
  {NoHass}
    \cup {RestoreHassOf(StateObj("sensor.a",
                                 Obj(<<Prop("world_backups_list", Arr(<<W1, W2>>)),
                                       Prop("device_id", d)>>), rev), r) :
            r \in RegDeviceIds, d \in AttrDeviceIds, rev \in {1, 2}}
    \cup {RestoreHassOf(a, Str(<<" ", "r", "1", " ">>)) :
            a \in {Absent, StateObj("sensor.a", Null, 1)}
                  \cup {StateObj("sensor.a", at, 1) : at \in RestoreAttributes}}

RestoreSetHass(h) ==
  /\ card \in RestoreCards
  /\ hass' = h
  /\ RestoreWrite(RestoreSetHassFields(h))
  /\ UNCHANGED <<notRestore, card, _isLoading, pending>>

\* _handleSensorSelection, from the sensor selector (disabled while loading)
RestoreHandleSensorSelection(entityId) ==
  /\ card \in RestoreCards
  /\ hass.defined /\ ~_isLoading
  /\ entityId # selected
  /\ RestoreWrite(_handleSensorSelection(entityId, hass, RestoreNow))
  /\ UNCHANGED <<notRestore, card, hass, _isLoading, pending>>

\* _handleBackupSelect, from the file select
RestoreHandleBackupSelect(value) ==
  /\ card \in RestoreCards
  /\ RestoreTypeSectionShown
  /\ \E i \in 1..Len(_availableBackups) : _availableBackups[i].s = value
  /\ _selectedBackupFile' = value
  /\ UNCHANGED <<notRestore, card, hass, selected, _isLoading, _error, _feedback, pending,
                 _serverDisplayName, _backupType, _availableBackups, _targetDeviceId>>

\* _callService up to its await
RestoreCallService(serviceName, serviceData, operationFeedback) ==
  /\ _isLoading' = TRUE
  /\ _error' = NoMsg
  /\ _feedback' = NoMsg
  /\ pending' = Append(pending, Call("service", serviceName, serviceData, operationFeedback, Null))

\* _restoreSelectedBackup up to the await of _callService, from the Restore
\* This button; confirmed is the answer to confirm()
RestoreRestoreSelectedBackup(confirmed) ==
  /\ card = "restore"
  /\ RestoreTypeSectionShown /\ canRestoreSelected
  /\ Len(pending) < MaxInFlight
  /\ IF ~Truthy(_targetDeviceId)
       THEN /\ _error' = <<"Target Device ID not found for the selected sensor. Cannot send restore command.">>
            /\ UNCHANGED <<_isLoading, _feedback, pending>>
     ELSE IF _selectedBackupFile = <<>>
       THEN /\ _error' = <<"No backup file selected.">>
            /\ UNCHANGED <<_isLoading, _feedback, pending>>
     ELSE IF ~backupTypeKnown
       THEN /\ _error' = <<"Backup type (world/config) could not be determined for the selected sensor. Cannot restore.">>
            /\ UNCHANGED <<_isLoading, _feedback, pending>>
     ELSE IF ~confirmed
       THEN UNCHANGED <<_isLoading, _error, _feedback, pending>>
     ELSE RestoreCallService("restore_backup",
            Obj(<<Prop("device_id", _targetDeviceId), Prop("restore_type", _backupType),
                  Prop("backup_file", Str(_selectedBackupFile))>>),
            Capitalize(_backupType.s) \o <<" restore from '">> \o _selectedBackupFile
              \o <<"' requested.">>)
  /\ UNCHANGED <<notRestore, card, hass, selected, restoreVars>>

\* _restoreLatestAll up to the await of _callService, from the Restore Latest
\* Full Backup button
RestoreRestoreLatestAll(confirmed) ==
  /\ card \in RestoreCards
  /\ hass.defined /\ selected # None /\ ~IsSet(_error) /\ canRestoreLatestAll
  /\ Len(pending) < MaxInFlight
  /\ IF ~Truthy(_targetDeviceId)
       THEN /\ _error' = <<"Target Device ID not found for the selected sensor. Cannot restore latest all.">>
            /\ UNCHANGED <<_isLoading, _feedback, pending>>
     ELSE IF ~confirmed
       THEN UNCHANGED <<_isLoading, _error, _feedback, pending>>
     ELSE RestoreCallService("restore_latest_all", Obj(<<Prop("device_id", _targetDeviceId)>>),
                             <<"Latest full backup restore requested.">>)
  /\ UNCHANGED <<notRestore, card, hass, selected, restoreVars>>

\* _callService after its await
RestoreCallServiceResolved(i) ==
  /\ card \in RestoreCards
  /\ i \in 1..Len(pending)
  /\ pending' = Without(pending, i)
  /\ _feedback' = IF IsSet(pending[i].feedback) THEN pending[i].feedback
                  ELSE <<"Operation successful.">>
  /\ _isLoading' = FALSE
  /\ UNCHANGED <<notRestore, card, hass, selected, _error, restoreVars>>

RestoreCallServiceRejected(i, err) ==
  /\ card \in RestoreCards
  /\ i \in 1..Len(pending)
  /\ pending' = Without(pending, i)
  /\ _error' = <<"Error: ">> \o ErrorMessage(err, <<"An unknown error occurred. Check HA logs.">>)
  /\ _isLoading' = FALSE
  /\ UNCHANGED <<notRestore, card, hass, selected, _feedback, restoreVars>>

RestoreInit ==
  /\ card = "restore"
  /\ hass = NoHass
  /\ selected = None
  /\ _isLoading = FALSE
  /\ _error = NoMsg
  /\ _feedback = RestoreSelectFeedback
  /\ pending = <<>>
  /\ Constructed

RestoreNext ==
  \/ \E h \in RestoreHassSet : RestoreSetHass(h)
  \/ \E e \in Entities \cup {None} : RestoreHandleSensorSelection(e)
  \/ \E v \in {W1.s, W2.s, K1.s} : RestoreHandleBackupSelect(v)
  \/ \E confirmed \in BOOLEAN : RestoreRestoreSelectedBackup(confirmed)
  \/ \E confirmed \in BOOLEAN : RestoreRestoreLatestAll(confirmed)
  \/ \E i \in 1..MaxInFlight : RestoreCallServiceResolved(i)
  \/ \E i \in 1..MaxInFlight, err \in RemoteFailures : RestoreCallServiceRejected(i, err)

SpecRestore == RestoreInit /\ [][RestoreNext]_vars

(***************************************************************************)
(* Restore card, the revision with categorized backups: the handlers that  *)
(* differ from bsm-restore-card.js                                         *)
(***************************************************************************)
\* _restoreSelectedBackup: the restore_type and backup_file of an entry of the
\* combined list
ServiceBackupFile(file) ==
  SubSeq(file, IndexOf(file, CategorySeparator) + Len(CategorySeparator), Len(file))
RECURSIVE KeyOfDisplayName(_, _)
KeyOfDisplayName(displayCategory, names) ==
  IF names = <<>> THEN AllType
  ELSE IF Head(names).v.s = displayCategory THEN Str(Head(names).k)
  ELSE KeyOfDisplayName(displayCategory, Tail(names))
ServiceRestoreType(file) ==
  KeyOfDisplayName(SubSeq(file, 1, IndexOf(file, CategorySeparator) - 1), BACKUP_TYPE_DISPLAY_NAMES)

\* _restoreSelectedBackup up to the await of _callService
CategorizedRestoreSelectedBackup(confirmed) ==
  /\ card = "restore-categorized"
  /\ RestoreTypeSectionShown /\ canRestoreSelected
  /\ Len(pending) < MaxInFlight
  /\ LET all == _backupType = AllType
         serviceRestoreType == IF all THEN ServiceRestoreType(_selectedBackupFile) ELSE _backupType
         serviceBackupFile == IF all THEN ServiceBackupFile(_selectedBackupFile)
                              ELSE _selectedBackupFile
     IN
     IF ~Truthy(_targetDeviceId)
       THEN /\ _error' = <<"Target Device ID not found for the selected sensor. Cannot send restore command.">>
            /\ UNCHANGED <<_isLoading, _feedback, pending>>
     ELSE IF _selectedBackupFile = <<>>
       THEN /\ _error' = <<"No backup file selected.">>
            /\ UNCHANGED <<_isLoading, _feedback, pending>>
     ELSE IF ~backupTypeKnown
       THEN /\ _error' = <<"Backup type (world/properties/allowlist/permissions/all) could not be determined for the selected sensor. Cannot restore.">>
            /\ UNCHANGED <<_isLoading, _feedback, pending>>
     ELSE IF all /\ IndexOf(_selectedBackupFile, CategorySeparator) = 0
       THEN /\ _error' = <<"Invalid backup file format for 'all' type: ">> \o _selectedBackupFile
                           \o <<".">>
            /\ UNCHANGED <<_isLoading, _feedback, pending>>
     ELSE IF all /\ serviceRestoreType \in {AllType, Unknown}
       THEN /\ _error' = <<"Could not determine specific backup type from '">>
                           \o SubSeq(_selectedBackupFile, 1,
                                     IndexOf(_selectedBackupFile, CategorySeparator) - 1)
                           \o <<"' for restore.">>
            /\ UNCHANGED <<_isLoading, _feedback, pending>>
     ELSE IF ~confirmed
       THEN UNCHANGED <<_isLoading, _error, _feedback, pending>>
     ELSE RestoreCallService("restore_backup",
            Obj(<<Prop("device_id", _targetDeviceId), Prop("restore_type", serviceRestoreType),
                  Prop("backup_file", Str(serviceBackupFile))>>),
            GetKey(BACKUP_TYPE_DISPLAY_NAMES, serviceRestoreType.s).s \o <<" restore from '">>
              \o serviceBackupFile \o <<"' requested.">>)
  /\ UNCHANGED <<notRestore, card, hass, selected, restoreVars>>

\* host objects handed to the revision with categorized backups
P1 == Str(<<"p", "1">>)
ColonFile == Str(<<"a", ":", " ", "b">>)
CategorizedAttributes ==
  {Obj(<<Prop("backups", Obj(<<KeyedProp(<<"w", "o", "r", "l", "d", "_", "b", "a", "c", "k", "u", "p", "s">>, Arr(<<W1, ColonFile, Str(<<" ">>)>>)),
                              KeyedProp(<<"p", "r", "o", "p", "e", "r", "t", "i", "e", "s", "_", "b", "a", "c", "k", "u", "p", "s">>, Arr(<<P1>>))>>)),
         Prop("device_id", Str(<<"a", "1">>))>>),
   Obj(<<Prop("backups", Obj(<<KeyedProp(<<"c", "o", "n", "f", "i", "g", "_", "b", "a", "c", "k", "u", "p", "s">>, Arr(<<K1>>)),
                              KeyedProp(<<"n", "o", "t", "e">>, Str(<<"x">>))>>))>>),
   Obj(<<Prop("world_backups_list", Arr(<<W1>>)), Prop("backups", Arr(<<W2>>))>>),
   Obj(<<Prop("files", Arr(<<W1>>)), Prop("properties_backups_list", Arr(<<P1>>))>>),
   Obj(<<Prop("config_backups_list", Arr(<<K1>>))>>),
   Obj(<<Prop("backups", Arr(<<W2>>)), Prop("friendly_name", SrvWorldBackups)>>),
   Obj(<<Prop("friendly_name", SrvWorldBackups)>>)}
CategorizedHassSet ==
  {NoHass}
    \cup {RestoreHassOf(a, r) :
            a \in {Absent, StateObj("sensor.a", Null, 1)}
                  \cup {StateObj("sensor.a", at, 1) : at \in CategorizedAttributes},
            r \in {Str(<<" ", "r", "1", " ">>), Null}}

CategorizedInit ==
  /\ card = "restore-categorized"
  /\ hass = NoHass
  /\ selected = None
  /\ _isLoading = FALSE
  /\ _error = NoMsg
  /\ _feedback = RestoreSelectFeedback
  /\ pending = <<>>
  /\ Constructed

CategorizedNext ==
  \/ \E h \in CategorizedHassSet : RestoreSetHass(h)
  \/ \E e \in Entities \cup {None} : RestoreHandleSensorSelection(e)
  \/ \E i \in 1..Len(_availableBackups) : RestoreHandleBackupSelect(_availableBackups[i].s)
  \/ \E confirmed \in BOOLEAN : CategorizedRestoreSelectedBackup(confirmed)
  \/ \E confirmed \in BOOLEAN : RestoreRestoreLatestAll(confirmed)
  \/ \E i \in 1..MaxInFlight : RestoreCallServiceResolved(i)
  \/ \E i \in 1..MaxInFlight, err \in RemoteFailures : RestoreCallServiceRejected(i, err)

SpecCategorized == CategorizedInit /\ [][CategorizedNext]_vars

(***************************************************************************)
(* Content installer card (bsm-content-card.js)                            *)
(***************************************************************************)
CONTENT_LIST_ATTRIBUTE_CANDIDATES ==
  <<"available_worlds_list", "available_addons_list", "content_files", "files_list",
    "available_files", "files">>

Addon == Str(<<"a", "d", "d", "o", "n">>)
ContentSelectFeedback == <<"Select content source and target server.">>

\* config.content_source_sensor_entity (None when the configuration has none)
ConfigSensor(cfg) ==
  LET entity == Member(cfg, "content_source_sensor_entity")
  IN IF Truthy(entity) THEN entity.s[1] ELSE None

ContentFields(sel, type, list, file, err, fb) ==
  [sel |-> sel, type |-> type, list |-> list, file |-> file, err |-> err, fb |-> fb]
ContentNow ==
  ContentFields(selected, _installType, _availableFilesForInstall, _selectedFileToInstall,
                _error, _feedback)
ContentWrite(f) ==
  /\ selected' = f.sel
  /\ _installType' = f.type
  /\ _availableFilesForInstall' = f.list
  /\ _selectedFileToInstall' = f.file
  /\ _error' = f.err
  /\ _feedback' = f.fb

\* _processSelectedContentSourceSensor: the attribute holding the list ("" when
\* there is none) and the install type
ContentListAttributeName(stateObj) ==
  LET attributes == stateObj.attributes
  IN IF Member(attributes, "available_worlds_list").t = "arr" THEN "available_worlds_list"
     ELSE IF Member(attributes, "available_addons_list").t = "arr" THEN "available_addons_list"
     ELSE FirstCandidate(attributes, CONTENT_LIST_ATTRIBUTE_CANDIDATES, TRUE)
ContentDeterminedInstallType(stateObj) ==
  LET nameHint == ToLowerCase(NameOrObjectId(stateObj, <<>>))
  IN IF Member(stateObj.attributes, "available_worlds_list").t = "arr" THEN World
     ELSE IF Member(stateObj.attributes, "available_addons_list").t = "arr" THEN Addon
     ELSE IF ContentListAttributeName(stateObj) = "" THEN Unknown
     ELSE IF Includes(nameHint, World.s) THEN World
     ELSE IF Includes(nameHint, Addon.s) \/ Includes(nameHint, <<"p", "a", "c", "k">>) THEN Addon
     ELSE Unknown

\* _processSelectedContentSourceSensor
_processSelectedContentSourceSensor(stateObj, f) ==
  IF stateObj.attributes.t = "null"
    THEN [f EXCEPT !.err = <<"Selected sensor (", stateObj.entity_id,
                             ") has missing state or attributes. Cannot load content list.">>,
                   !.fb = NoMsg, !.type = Null, !.list = <<>>, !.file = <<>>]
    ELSE
      LET listAttributeName == ContentListAttributeName(stateObj)
          foundList == Member(stateObj.attributes, listAttributeName)
          installType == ContentDeterminedInstallType(stateObj)
          newList == Sort(SelectSeq(foundList.o, IsFileName), FALSE)
          changed == Stringify(Arr(newList)) # Stringify(Arr(f.list))
          list == IF changed THEN newList ELSE f.list
      IN IF listAttributeName # ""
           THEN [f EXCEPT !.type = installType,
                          !.list = list,
                          !.file = IF ~changed THEN f.file
                                   ELSE IF Len(newList) > 0 THEN newList[1].s
                                   ELSE <<>>,
                          !.err = NoMsg,
                          !.fb = IF Len(list) = 0
                                   THEN <<"No valid files found in sensor ", stateObj.entity_id,
                                          " (checked attr: ", listAttributeName, ").">>
                                   ELSE <<"Found ">>
                                        \o (IF installType # Unknown THEN installType.s
                                            ELSE <<"content">>)
                                        \o <<" files. Select a target server.">>]
           ELSE [f EXCEPT !.err = <<"Could not load files. No suitable attribute found on ",
                                    stateObj.entity_id, ".">>,
                          !.list = <<>>, !.file = <<>>, !.type = Null, !.fb = NoMsg]

\* _handleContentSourceSensorChange
_handleContentSourceSensorChange(entityId, h, f) ==
  IF entityId = f.sel THEN f
  ELSE LET reset == [f EXCEPT !.sel = entityId, !.type = Null, !.list = <<>>, !.file = <<>>,
                              !.err = NoMsg]
       IN IF entityId = None THEN [reset EXCEPT !.fb = ContentSelectFeedback]
          ELSE IF h.defined /\ StateOf(h, entityId) # Absent
            THEN _processSelectedContentSourceSensor(StateOf(h, entityId),
                   [reset EXCEPT !.fb = <<"Processing content source ", entityId, "...">>])
          ELSE [reset EXCEPT !.fb = <<"Waiting for sensor data...">>]

\* set hass(hass)
ContentSetHassFields(h) ==
  IF h.defined /\ selected # None
    THEN LET sourceStateObj == StateOf(h, selected)
             oldSourceStateObj == StateOf(hass, selected)
         IN IF /\ sourceStateObj # Absent
               /\ \/ sourceStateObj # oldSourceStateObj
                  \/ Stringify(sourceStateObj.attributes) # Stringify(oldSourceStateObj.attributes)
              THEN _processSelectedContentSourceSensor(sourceStateObj, ContentNow)
            ELSE IF sourceStateObj = Absent /\ oldSourceStateObj # Absent
              \* the message is built after the selection has been reset to null
              THEN [_handleContentSourceSensorChange(None, h, ContentNow) EXCEPT
                      !.err = <<"Content source sensor ", None, " is no longer available.">>]
            ELSE ContentNow
  ELSE IF selected = None /\ ConfigSensor(config) # None
    THEN IF StateOf(h, ConfigSensor(config)) # Absent
           THEN _processSelectedContentSourceSensor(StateOf(h, ConfigSensor(config)),
                  [ContentNow EXCEPT !.sel = ConfigSensor(config)])
           ELSE ContentNow
  ELSE ContentNow

\* render(): isInstallPossible
isInstallPossible ==
  /\ selected # None
  /\ Truthy(_selectedTargetServerDeviceId)
  /\ _selectedFileToInstall # <<>>
  /\ Truthy(_installType) /\ _installType # Unknown

\* host objects handed to the content card
M1 == Str(<<"m", "1">>)
M2 == Str(<<"m", "2">>)
AddonPacks == Str(<<"A", "d", "d", "o", "n", " ", "P", "a", "c", "k", "s">>)
ContentAttributes ==
  {Obj(<<Prop("available_worlds_list", Arr(<<M2, Num(3), M1>>))>>),
   Obj(<<Prop("available_worlds_list", Arr(<<M1>>))>>),
   Obj(<<Prop("available_addons_list", Arr(<<M1>>)), Prop("files", Arr(<<M2>>))>>),
   Obj(<<Prop("content_files", Arr(<<>>)), Prop("files", Arr(<<M2>>)),
         Prop("friendly_name", AddonPacks)>>),
   Obj(<<Prop("files", Arr(<<M1>>))>>),
   Obj(<<Prop("available_worlds_list", Arr(<<>>))>>),
   Obj(<<Prop("files", Arr(<<>>))>>)}
ContentHassSet ==
  {NoHass}
    \cup {Hass([e \in Entities |->
                  IF e = "sensor.a" THEN a
                  ELSE StateObj(e, Obj(<<Prop("available_addons_list", Arr(<<M2>>))>>), 1)],
               [e \in Entities |-> Null]) :
            a \in {Absent, StateObj("sensor.a", Null, 1),
                   StateObj("sensor.a", Obj(<<Prop("available_worlds_list", Arr(<<M1>>))>>), 2)}
                  \cup {StateObj("sensor.a", at, 1) : at \in ContentAttributes}}
ContentConfigs ==
  {Obj(<<Prop("title", Str(<<"Content">>))>>),
   Obj(<<Prop("content_source_sensor_entity", Str(<<"sensor.a">>))>>)}
ContentTargets == {Null, Str(<<"d1">>), Str(<<"d2">>)}

ContentSetHass(h) ==
  /\ card = "content"
  /\ hass' = h
  /\ ContentWrite(ContentSetHassFields(h))
  /\ UNCHANGED <<notContent, card, _isLoading, pending, config, _selectedTargetServerDeviceId>>

\* setConfig(config)
ContentSetConfig(cfg) ==
  /\ card = "content"
  /\ config' = cfg
  /\ LET initialSensorId == IF ConfigSensor(cfg) # None THEN ConfigSensor(cfg) ELSE selected
     IN ContentWrite(
          IF initialSensorId # selected
            THEN _handleContentSourceSensorChange(initialSensorId, hass, ContentNow)
          ELSE IF initialSensorId # None /\ StateOf(hass, initialSensorId) # Absent
            THEN _processSelectedContentSourceSensor(StateOf(hass, initialSensorId), ContentNow)
          ELSE ContentNow)
  /\ UNCHANGED <<notContent, card, hass, _isLoading, pending, _selectedTargetServerDeviceId>>

\* _handleContentSourceSensorChange, from the source selector (enabled also
\* while loading)
ContentHandleContentSourceSensorChange(entityId) ==
  /\ card = "content"
  /\ hass.defined
  /\ entityId # selected
  /\ ContentWrite(_handleContentSourceSensorChange(entityId, hass, ContentNow))
  /\ UNCHANGED <<notContent, card, hass, _isLoading, pending, config,
                 _selectedTargetServerDeviceId>>

\* _handleTargetServerChange, from the device selector (enabled also while
\* loading)
ContentHandleTargetServerChange(value) ==
  /\ card = "content"
  /\ hass.defined /\ selected # None
  /\ _selectedTargetServerDeviceId' = value
  /\ _feedback' = IF Truthy(value) /\ Len(_availableFilesForInstall) > 0
                    THEN <<"Select a file to install.">>
                  ELSE IF ~Truthy(value) THEN <<"Select a target server.">>
                  ELSE _feedback
  /\ _error' = NoMsg
  /\ UNCHANGED <<notContent, card, hass, selected, _isLoading, pending, config, _installType,
                 _availableFilesForInstall, _selectedFileToInstall>>

\* _handleFileToInstallSelect, from the file select
ContentHandleFileToInstallSelect(value) ==
  /\ card = "content"
  /\ hass.defined /\ selected # None /\ Truthy(_selectedTargetServerDeviceId)
  /\ Truthy(_installType) /\ Len(_availableFilesForInstall) > 0
  /\ ~_isLoading /\ _installType # Unknown
  /\ \E i \in 1..Len(_availableFilesForInstall) : _availableFilesForInstall[i].s = value
  /\ _selectedFileToInstall' = value
  /\ UNCHANGED <<notContent, card, hass, selected, _isLoading, _error, _feedback, pending,
                 config, _selectedTargetServerDeviceId, _installType, _availableFilesForInstall>>

\* _installContent up to its await, from the Install button
ContentInstallContent ==
  /\ card = "content"
  /\ hass.defined /\ isInstallPossible /\ ~_isLoading
  /\ Len(pending) < MaxInFlight
  /\ IF selected = None
       THEN /\ _error' = <<"Error: Content source sensor not selected.">>
            /\ UNCHANGED <<_isLoading, _feedback, pending>>
     ELSE IF ~Truthy(_selectedTargetServerDeviceId)
       THEN /\ _error' = <<"Error: Target server device not selected.">>
            /\ UNCHANGED <<_isLoading, _feedback, pending>>
     ELSE IF ~Truthy(_installType) \/ _installType = Unknown
       THEN /\ _error' = <<"Error: Content type (world/addon) could not be determined from the source sensor. Check sensor attributes.">>
            /\ UNCHANGED <<_isLoading, _feedback, pending>>
     ELSE IF _selectedFileToInstall = <<>>
       THEN /\ _error' = <<"Error: No file selected to install.">>
            /\ UNCHANGED <<_isLoading, _feedback, pending>>
     ELSE /\ _isLoading' = TRUE
          /\ _error' = NoMsg
          /\ _feedback' = <<"Requesting installation of ">> \o _installType.s \o <<" '">>
                          \o _selectedFileToInstall \o <<"' on device ">>
                          \o _selectedTargetServerDeviceId.s \o <<"...">>
          /\ pending' = Append(pending,
               Call("service",
                    IF _installType = World THEN "install_world" ELSE "install_addon",
                    Obj(<<Prop("device_id", _selectedTargetServerDeviceId),
                          Prop("filename", Str(_selectedFileToInstall))>>),
                    NoMsg, Null))
  /\ UNCHANGED <<notContent, card, hass, selected, contentVars>>

\* _installContent after hass.callService resolved; building the success
\* message throws when the install type is null by then, which the catch
\* block turns into an error message
ContentCallServiceResolved(i) ==
  /\ card = "content"
  /\ i \in 1..Len(pending)
  /\ pending' = Without(pending, i)
  /\ IF _installType.t = "null"
       THEN /\ _error' = <<"Error installing ">> \o JsString(_installType)
                         \o <<": ", "Cannot read properties of null (reading 'charAt')">>
            /\ _feedback' = NoMsg
       ELSE /\ _feedback' = Capitalize(_installType.s) \o <<" file '">> \o _selectedFileToInstall
                            \o <<"' installation successfully requested for device ">>
                            \o JsString(_selectedTargetServerDeviceId) \o <<".">>
            /\ UNCHANGED _error
  /\ _isLoading' = FALSE
  /\ UNCHANGED <<notContent, card, hass, selected, contentVars>>

ContentCallServiceRejected(i, err) ==
  /\ card = "content"
  /\ i \in 1..Len(pending)
  /\ pending' = Without(pending, i)
  /\ _error' = <<"Error installing ">> \o JsString(_installType) \o <<": ">>
               \o ErrorMessage(err, <<"An unknown error occurred. Check Home Assistant logs.">>)
  /\ _feedback' = NoMsg
  /\ _isLoading' = FALSE
  /\ UNCHANGED <<notContent, card, hass, selected, contentVars>>

ContentInit ==
  /\ card = "content"
  /\ hass = NoHass
  /\ selected = None
  /\ _isLoading = FALSE
  /\ _error = NoMsg
  /\ _feedback = ContentSelectFeedback
  /\ pending = <<>>
  /\ Constructed

ContentNext ==
  \/ \E h \in ContentHassSet : ContentSetHass(h)
  \/ \E cfg \in ContentConfigs : ContentSetConfig(cfg)
  \/ \E e \in Entities \cup {None} : ContentHandleContentSourceSensorChange(e)
  \/ \E d \in ContentTargets : ContentHandleTargetServerChange(d)
  \/ \E v \in {M1.s, M2.s} : ContentHandleFileToInstallSelect(v)
  \/ ContentInstallContent
  \/ \E i \in 1..MaxInFlight : ContentCallServiceResolved(i)
  \/ \E i \in 1..MaxInFlight, err \in RemoteFailures : ContentCallServiceRejected(i, err)

SpecContent == ContentInit /\ [][ContentNext]_vars

(***************************************************************************)
(* Command card (bsm-command-card.js)                                      *)
(***************************************************************************)
\* String.prototype.substring(0, n)
Substring0(chars, n) == SubSeq(chars, 1, IF Len(chars) < n THEN Len(chars) ELSE n)

\* message extraction of _callService's catch block:
\* err.body?.message || err.message || "An unknown error occurred. ..."
CommandErrorMessage(err) ==
  IF Truthy(Member(Member(err, "body"), "message"))
    THEN JsString(Member(Member(err, "body"), "message"))
  ELSE IF err.t = "error" /\ err.s # <<>> THEN err.s
  ELSE IF Truthy(Member(err, "message")) THEN JsString(Member(err, "message"))
  ELSE <<"An unknown error occurred. Check Home Assistant logs.">>

\* render(): the form is shown (reading the title of a configuration that
\* was never set throws), what disables the Send Command button
CommandFormShown == hass.defined /\ config # Null
canSendCommand == Trim(_commandText) # <<>> /\ Truthy(_selectedDeviceId) /\ ~_isLoading

\* a host object of a card that reads no entity state
PlainHass == Hass([e \in Entities |-> Absent], [e \in Entities |-> Null])
\* what the device selector and the text selector may report
CommandDevices == {Null, Str(<<>>), Str(<<"d1">>), Str(<<"d2">>)}
LongCommand == [i \in 1..31 |-> IF i = 4 THEN " " ELSE "x"]
CommandConfigs == {Null, Obj(<<Prop("title", Str(<<"Console">>))>>)}
CommandFailures ==
  RemoteFailures \cup {Obj(<<Prop("body", Obj(<<Prop("message", Str(<<"bad">>))>>))>>)}
CommandTexts == {<<>>, <<" ">>, <<"s", "a", "y">>, <<" ", "s", "a", "y", " ">>, LongCommand}

\* set hass(hass)
CommandSetHass(h) ==
  /\ card = "command"
  /\ hass' = h
  /\ UNCHANGED <<notCommand, card, config, _isLoading, _error, _feedback, pending, commandVars>>

\* setConfig(config)
CommandSetConfig(cfg) ==
  /\ card = "command"
  /\ config' = IF Truthy(cfg) THEN cfg ELSE Obj(<<>>)
  /\ UNCHANGED <<notCommand, card, hass, _isLoading, _error, _feedback, pending, commandVars>>

\* _handleTargetChanged, from the device selector
CommandHandleTargetChanged(deviceId) ==
  /\ card = "command"
  /\ CommandFormShown /\ ~_isLoading
  /\ _feedback' = NoMsg
  /\ _error' = NoMsg
  /\ _selectedDeviceId' = IF Truthy(deviceId) THEN deviceId ELSE Null
  /\ UNCHANGED <<notCommand, card, config, hass, _isLoading, pending, _commandText>>

\* _handleCommandChanged, from the text selector
CommandHandleCommandChanged(value) ==
  /\ card = "command"
  /\ CommandFormShown /\ ~_isLoading
  /\ _feedback' = NoMsg
  /\ _error' = NoMsg
  /\ _commandText' = value
  /\ UNCHANGED <<notCommand, card, config, hass, _isLoading, pending, _selectedDeviceId>>

\* a variant that does not look at the command before sending it
_sendCommandUnchecked ==
  /\ IF ~Truthy(_selectedDeviceId)
       THEN /\ _error' = <<"Error: Please select a target server device.">>
            /\ _feedback' = NoMsg
            /\ UNCHANGED <<_isLoading, pending>>
     ELSE LET commandToSend == Trim(_commandText)
          IN /\ _isLoading' = TRUE
             /\ _feedback' = NoMsg
             /\ _error' = NoMsg
             /\ pending' = Append(pending,
                  Call("service", "send_command",
                       Obj(<<Prop("device_id", _selectedDeviceId),
                             Prop("command", Str(commandToSend))>>),
                       <<"Command \"">> \o Substring0(commandToSend, 30)
                         \o (IF Len(commandToSend) > 30 THEN <<"...">> ELSE <<>>)
                         \o <<"\" sent successfully.">>,
                       Null))
  /\ UNCHANGED <<notCommand, card, config, hass, commandVars>>

\* _sendCommand up to the await of _callService
_sendCommand ==
  /\ IF ~Truthy(_selectedDeviceId)
       THEN /\ _error' = <<"Error: Please select a target server device.">>
            /\ _feedback' = NoMsg
            /\ UNCHANGED <<_isLoading, pending>>
     ELSE IF Trim(_commandText) = <<>>
       THEN /\ _error' = <<"Error: Please enter a command.">>
            /\ _feedback' = NoMsg
            /\ UNCHANGED <<_isLoading, pending>>
     ELSE LET commandToSend == Trim(_commandText)
          IN /\ _isLoading' = TRUE
             /\ _feedback' = NoMsg
             /\ _error' = NoMsg
             /\ pending' = Append(pending,
                  Call("service", "send_command",
                       Obj(<<Prop("device_id", _selectedDeviceId),
                             Prop("command", Str(commandToSend))>>),
                       <<"Command \"">> \o Substring0(commandToSend, 30)
                         \o (IF Len(commandToSend) > 30 THEN <<"...">> ELSE <<>>)
                         \o <<"\" sent successfully.">>,
                       Null))
  /\ UNCHANGED <<notCommand, card, config, hass, commandVars>>

\* _sendCommand, from the Send Command button
CommandSendCommand ==
  /\ card = "command"
  /\ CommandFormShown /\ canSendCommand
  /\ Len(pending) < MaxInFlight
  /\ _sendCommand

\* _sendCommand called on an idle card while render() has its button disabled
\* (the handler holds its own checks of the device and the command)
CommandSendCommandUnrendered ==
  /\ card = "command"
  /\ ~_isLoading /\ ~(CommandFormShown /\ canSendCommand)
  /\ Len(pending) < MaxInFlight
  /\ _sendCommand

\* _callService resolved, then the rest of _sendCommand
CommandCallServiceResolved(i) ==
  /\ card = "command"
  /\ i \in 1..Len(pending)
  /\ pending' = Without(pending, i)
  /\ _feedback' = IF IsSet(pending[i].feedback) THEN pending[i].feedback
                  ELSE <<"Operation successful.">>
  /\ _isLoading' = FALSE
  /\ _commandText' = <<>>
  /\ UNCHANGED <<notCommand, card, config, hass, _error, _selectedDeviceId>>

\* _callService rejected
CommandCallServiceRejected(i, err) ==
  /\ card = "command"
  /\ i \in 1..Len(pending)
  /\ pending' = Without(pending, i)
  /\ _error' = <<"Error: ">> \o CommandErrorMessage(err)
  /\ _isLoading' = FALSE
  /\ UNCHANGED <<notCommand, card, config, hass, _feedback, commandVars>>

CommandInit ==
  /\ card = "command"
  /\ hass = NoHass
  /\ selected = None
  /\ _isLoading = FALSE
  /\ _error = NoMsg
  /\ _feedback = NoMsg
  /\ pending = <<>>
  /\ Constructed

CommandNext ==
  \/ \E h \in {NoHass, PlainHass} : CommandSetHass(h)
  \/ \E cfg \in CommandConfigs : CommandSetConfig(cfg)
  \/ \E d \in CommandDevices : CommandHandleTargetChanged(d)
  \/ \E t \in CommandTexts : CommandHandleCommandChanged(t)
  \/ CommandSendCommand
  \/ \E i \in 1..MaxInFlight : CommandCallServiceResolved(i)
  \/ \E i \in 1..MaxInFlight, err \in CommandFailures : CommandCallServiceRejected(i, err)

SpecCommand == CommandInit /\ [][CommandNext]_vars

(***************************************************************************)
(* Event trigger card (bsm-event-trigger-card.js)                          *)
(***************************************************************************)
\* JSON.parse on a character sequence: a recursive descent over the JSON
\* grammar, here with integers for numbers and the two-character escapes in
\* strings.  A parse yields the value and the characters left over.
JsonFail == [ok |-> FALSE, v |-> Null, rest |-> <<>>]
JsonOk(v, rest) == [ok |-> TRUE, v |-> v, rest |-> rest]
StartsWith(chars, prefix) ==
  Len(chars) >= Len(prefix) /\ SubSeq(chars, 1, Len(prefix)) = prefix
Drop(chars, n) == SubSeq(chars, n + 1, Len(chars))
IsDigit(c) == \E i \in 1..10 : Digit[i] = c
DigitValue(c) == (CHOOSE i \in 1..10 : Digit[i] = c) - 1
JsonEscapes == {"\"", "\\", "/", "b", "f", "n", "r", "t"}

\* the digits at the front of chars, as [n, rest]
RECURSIVE JsonDigits(_, _)
JsonDigits(chars, n) ==
  IF chars # <<>> /\ IsDigit(Head(chars))
    THEN JsonDigits(Tail(chars), 10 * n + DigitValue(Head(chars)))
    ELSE [n |-> n, rest |-> chars]

\* an integer: "-"? ("0" | [1-9][0-9]*)
JsonNumber(chars) ==
  LET negative == chars # <<>> /\ Head(chars) = "-"
      body == IF negative THEN Tail(chars) ELSE chars
      digits == JsonDigits(body, 0)
  IN IF body = <<>> \/ ~IsDigit(Head(body)) THEN JsonFail
     ELSE IF Head(body) = "0" THEN JsonOk(Num(0), Tail(body))
     ELSE JsonOk(Num(IF negative THEN 0 - digits.n ELSE digits.n), digits.rest)

\* a string, after its opening quote; `read` is what has been read of it
RECURSIVE JsonStringBody(_, _)
JsonStringBody(chars, read) ==
  IF chars = <<>> THEN JsonFail
  ELSE IF Head(chars) = "\"" THEN JsonOk(Str(read), Tail(chars))
  ELSE IF Head(chars) = "\\"
    THEN IF Len(chars) >= 2 /\ chars[2] \in JsonEscapes
           THEN JsonStringBody(Drop(chars, 2), read \o <<chars[1], chars[2]>>)
           ELSE JsonFail
  ELSE JsonStringBody(Tail(chars), Append(read, Head(chars)))

RECURSIVE JsonValue(_)
RECURSIVE JsonElements(_, _)
RECURSIVE JsonMembers(_, _)
\* a value, with the white space around it
JsonValue(text) ==
  LET chars == TrimLeft(text)
      literal(word, v) == JsonOk(v, TrimLeft(Drop(chars, Len(word))))
      spaced(r) == IF r.ok THEN JsonOk(r.v, TrimLeft(r.rest)) ELSE JsonFail
  IN IF chars = <<>> THEN JsonFail
     ELSE IF StartsWith(chars, <<"n", "u", "l", "l">>) THEN literal(<<"n", "u", "l", "l">>, Null)
     ELSE IF StartsWith(chars, <<"t", "r", "u", "e">>)
       THEN literal(<<"t", "r", "u", "e">>, Bool(TRUE))
     ELSE IF StartsWith(chars, <<"f", "a", "l", "s", "e">>)
       THEN literal(<<"f", "a", "l", "s", "e">>, Bool(FALSE))
     ELSE IF Head(chars) = "\"" THEN spaced(JsonStringBody(Tail(chars), <<>>))
     ELSE IF Head(chars) = "["
       THEN IF TrimLeft(Tail(chars)) # <<>> /\ Head(TrimLeft(Tail(chars))) = "]"
              THEN JsonOk(Arr(<<>>), TrimLeft(Tail(TrimLeft(Tail(chars)))))
              ELSE spaced(JsonElements(Tail(chars), <<>>))
     ELSE IF Head(chars) = "{"
       THEN IF TrimLeft(Tail(chars)) # <<>> /\ Head(TrimLeft(Tail(chars))) = "}"
              THEN JsonOk(Obj(<<>>), TrimLeft(Tail(TrimLeft(Tail(chars)))))
              ELSE spaced(JsonMembers(Tail(chars), <<>>))
     ELSE spaced(JsonNumber(chars))
\* the elements of an array up to its closing bracket
JsonElements(chars, items) ==
  LET element == JsonValue(chars)
  IN IF ~element.ok \/ element.rest = <<>> THEN JsonFail
     ELSE IF Head(element.rest) = "]"
       THEN JsonOk(Arr(Append(items, element.v)), Tail(element.rest))
     ELSE IF Head(element.rest) = ","
       THEN JsonElements(Tail(element.rest), Append(items, element.v))
     ELSE JsonFail
\* the members of an object up to its closing brace
JsonMembers(chars, props) ==
  LET start == TrimLeft(chars)
      key == IF start # <<>> /\ Head(start) = "\"" THEN JsonStringBody(Tail(start), <<>>)
             ELSE JsonFail
      colon == TrimLeft(key.rest)
      member == IF key.ok /\ colon # <<>> /\ Head(colon) = ":" THEN JsonValue(Tail(colon))
                ELSE JsonFail
  IN IF ~member.ok \/ member.rest = <<>> THEN JsonFail
     ELSE IF Head(member.rest) = "}"
       THEN JsonOk(Obj(SetKey(props, key.v.s, member.v)), Tail(member.rest))
     ELSE IF Head(member.rest) = ","
       THEN JsonMembers(Tail(member.rest), SetKey(props, key.v.s, member.v))
     ELSE JsonFail
\* JSON.parse(text): the whole text is one value, or the parse throws
JsonParse(text) ==
  LET r == JsonValue(text)
  IN IF r.ok /\ r.rest = <<>> THEN r ELSE JsonFail

\* the message of the SyntaxError JSON.parse throws (its wording is the
\* engine's)
JsonSyntaxErrorMessage == <<"SyntaxError">>

\* setConfig accepts a configuration whose target_device is a string that is
\* not blank
EventConfigAccepted(cfg) ==
  /\ Truthy(Member(cfg, "target_device"))
  /\ Member(cfg, "target_device").t = "str"
  /\ Trim(Member(cfg, "target_device").s) # <<>>

\* render(): the form is shown, the Trigger Event button enabled
EventFormShown == Truthy(config) /\ Truthy(Member(config, "target_device")) /\ hass.defined
canTriggerEvent == ~_isLoading /\ Trim(_eventName) # <<>>

\* what the card may be configured with and what may be typed into it
EventConfigs ==
  {Obj(<<Prop("title", Str(<<"Events">>))>>),
   Obj(<<Prop("target_device", Str(<<" ">>))>>),
   Obj(<<Prop("target_device", Num(7))>>),
   Obj(<<Prop("target_device", Str(<<"d1">>))>>)}
EventNames == {<<>>, <<" ">>, <<"e", "v">>, <<" ", "e", "v">>}
EventPayloads ==
  {<<>>, <<" ">>,
   <<"{", "\"", "a", "\"", ":", " ", "1", "}">>,
   <<"{", "a", ":", "1", "}">>,
   <<"[", "1", ",", "t", "r", "u", "e", "]", " ">>,
   <<"[", "1", ",", "]">>,
   <<"n", "u", "l", "l">>,
   <<"\"", "a", "\"", " ", "x">>}

\* hass, a plain reactive property of this card
EventSetHass(h) ==
  /\ card = "event"
  /\ hass' = h
  /\ UNCHANGED <<notEvent, card, _isLoading, _error, _feedback, pending, config, eventVars>>

\* setConfig(config); a configuration it throws on is not taken
EventSetConfig(cfg) ==
  /\ card = "event"
  /\ config' = IF EventConfigAccepted(cfg) THEN cfg ELSE config
  /\ UNCHANGED <<notEvent, card, hass, _isLoading, _error, _feedback, pending, eventVars>>

\* _handleEventNameChange, from the name field
EventHandleEventNameChange(value) ==
  /\ card = "event"
  /\ EventFormShown /\ ~_isLoading
  /\ _eventName' = value
  /\ UNCHANGED <<notEvent, card, hass, _isLoading, _error, _feedback, pending, config,
                 _eventPayload>>

\* _handlePayloadChange, from the payload area
EventHandlePayloadChange(value) ==
  /\ card = "event"
  /\ EventFormShown /\ ~_isLoading
  /\ _eventPayload' = value
  /\ UNCHANGED <<notEvent, card, hass, _isLoading, _error, _feedback, pending, config,
                 _eventName>>

\* _triggerEvent up to the call of hass.callService; reading target_device
\* of a configuration that was never set throws before any assignment
_triggerEvent ==
  /\ LET hasPayload == Trim(_eventPayload) # <<>>
         parsed == JsonParse(_eventPayload)
         payloadObject == IF hasPayload THEN parsed.v ELSE Null
     IN IF ~hass.defined
          THEN /\ _error' = <<"Home Assistant connection not available.">>
               /\ _feedback' = NoMsg
               /\ UNCHANGED <<_isLoading, pending>>
        ELSE IF config = Null
          THEN UNCHANGED <<_error, _feedback, _isLoading, pending>>
        ELSE IF ~Truthy(Member(config, "target_device"))
          THEN /\ _error' = <<"Target BSM device not configured for this card.">>
               /\ _feedback' = NoMsg
               /\ UNCHANGED <<_isLoading, pending>>
        ELSE IF Trim(_eventName) = <<>>
          THEN /\ _error' = <<"Event Name is required.">>
               /\ _feedback' = NoMsg
               /\ UNCHANGED <<_isLoading, pending>>
        ELSE IF hasPayload /\ ~parsed.ok
          THEN /\ _error' = <<"Invalid JSON in payload: ">> \o JsonSyntaxErrorMessage
               /\ _feedback' = NoMsg
               /\ UNCHANGED <<_isLoading, pending>>
        ELSE /\ _isLoading' = TRUE
             /\ _error' = NoMsg
             /\ _feedback' = <<"Triggering event '">> \o _eventName \o <<"'...">>
             /\ pending' = Append(pending,
                  Call("service", "trigger_plugin_event",
                       Obj(<<Prop("event_name", Str(_eventName))>>
                           \o (IF payloadObject # Null
                                 THEN <<Prop("event_payload", payloadObject)>>
                                 ELSE <<>>)),
                       NoMsg, Member(config, "target_device")))
  /\ UNCHANGED <<notEvent, card, hass, config, eventVars>>

\* _triggerEvent, from the Trigger Event button
EventTriggerEvent ==
  /\ card = "event"
  /\ EventFormShown /\ canTriggerEvent
  /\ Len(pending) < MaxInFlight
  /\ _triggerEvent

\* _triggerEvent called on an idle card while render() does not offer its
\* button enabled (the handler holds its own checks of the connection, the
\* device and the name)
EventTriggerEventUnrendered ==
  /\ card = "event"
  /\ ~_isLoading /\ ~(EventFormShown /\ canTriggerEvent)
  /\ Len(pending) < MaxInFlight
  /\ _triggerEvent

\* hass.callService resolved: .then, .finally
EventCallServiceResolved(i) ==
  /\ card = "event"
  /\ i \in 1..Len(pending)
  /\ pending' = Without(pending, i)
  /\ _feedback' = <<"Event '">> \o _eventName \o <<"' triggered successfully on device ">>
                  \o JsString(Member(config, "target_device")) \o <<".">>
  /\ _isLoading' = FALSE
  /\ UNCHANGED <<notEvent, card, hass, _error, config, eventVars>>

\* hass.callService rejected: .catch, .finally
EventCallServiceRejected(i, err) ==
  /\ card = "event"
  /\ i \in 1..Len(pending)
  /\ pending' = Without(pending, i)
  /\ _error' = <<"Error triggering event: ">>
               \o (IF err.t = "error" /\ err.s # <<>> THEN err.s
                   ELSE IF Truthy(Member(err, "message")) THEN JsString(Member(err, "message"))
                   ELSE JsString(err))
  /\ _feedback' = NoMsg
  /\ _isLoading' = FALSE
  /\ UNCHANGED <<notEvent, card, hass, config, eventVars>>

EventInit ==
  /\ card = "event"
  /\ hass = NoHass
  /\ selected = None
  /\ _isLoading = FALSE
  /\ _error = NoMsg
  /\ _feedback = NoMsg
  /\ pending = <<>>
  /\ Constructed

EventNext ==
  \/ \E h \in {NoHass, PlainHass} : EventSetHass(h)
  \/ \E cfg \in EventConfigs : EventSetConfig(cfg)
  \/ \E n \in EventNames : EventHandleEventNameChange(n)
  \/ \E p \in EventPayloads : EventHandlePayloadChange(p)
  \/ EventTriggerEvent
  \/ \E i \in 1..MaxInFlight : EventCallServiceResolved(i)
  \/ \E i \in 1..MaxInFlight, err \in RemoteFailures : EventCallServiceRejected(i, err)

SpecEvent == EventInit /\ [][EventNext]_vars

(***************************************************************************)
(* The handlers that check their own input, called also on input for which *)
(* render() keeps their control hidden or disabled                         *)
(***************************************************************************)
SpecAllowUnrendered == AllowInit /\ [][AllowNext \/ AllowAddPlayerUnrendered]_vars
SpecValidated ==
  /\ CommandInit \/ EventInit
  /\ [][\/ CommandNext \/ CommandSendCommandUnrendered
        \/ EventNext \/ EventTriggerEventUnrendered]_vars

(***************************************************************************)
(* The allowlist, command and event trigger cards, with every shape a      *)
(* rejected call may carry                                                 *)
(***************************************************************************)
\* a typed error, an object with an `error` field, an object with a
\* `message` field, a plain string
FailureShapes ==
  {ErrorObject(<<"b", "o", "o", "m">>),
   Obj(<<Prop("error", Str(<<"denied">>))>>),
   Obj(<<Prop("message", Str(<<"refused">>))>>),
   Str(<<"offline">>)}
SpecFailureShapes ==
  /\ AllowInit \/ CommandInit \/ EventInit
  /\ [][\/ AllowNext \/ CommandNext \/ EventNext
        \/ \E i \in 1..MaxInFlight, err \in FailureShapes :
             \/ AllowCallServiceRejected(i, err)
             \/ CommandCallServiceRejected(i, err)
             \/ EventCallServiceRejected(i, err)]_vars

(***************************************************************************)
(* The permissions and restore cards, handed lists with malformed entries  *)
(***************************************************************************)
\* a record without a level, a string, a record with a level that does not
\* exist, between two valid records
MalformedPermissions ==
  Arr(<<PermEntry(<<"1">>, "operator"), Obj(<<Prop("xuid", Str(<<"5">>))>>), Str(<<"x">>),
        PermEntry(<<"6">>, "admin"), PermEntry(<<"7">>, "visitor")>>)
\* a record without a name and one without an XUID, between two valid records
MalformedPlayers ==
  Arr(<<Obj(<<Prop("xuid", Str(<<"8">>)), Prop("name", Str(<<"b", "o">>))>>),
        Obj(<<Prop("xuid", Str(<<"9">>))>>),
        Obj(<<Prop("name", Str(<<"z", "e", "d">>))>>),
        Obj(<<Prop("xuid", Str(<<"2">>)), Prop("name", Str(<<"a", "l">>))>>)>>)
\* a number, a blank string and null, between two file names
MalformedBackups == Arr(<<W1, Num(3), Str(<<" ">>), Null, W2>>)
MalformedPermHass ==
  Hass([e \in Entities \cup {GlobalPlayersEntity} |->
          IF e = "sensor.a"
            THEN StateObj(e, PermAttributes(MalformedPermissions, Str(<<"a", "1">>)), 3)
          ELSE IF e = "sensor.b" THEN StateObj(e, Obj(<<Prop("server_permissions", L1)>>), 1)
          ELSE StateObj(e, Obj(<<Prop("global_players_list", MalformedPlayers)>>), 2)],
       [e \in Entities |-> Str(<<"r", "b">>)])
MalformedRestoreHass ==
  RestoreHassOf(StateObj("sensor.a",
                         Obj(<<Prop("world_backups_list", MalformedBackups),
                               Prop("device_id", Str(<<"a", "1">>))>>), 3),
                Str(<<"r", "b">>))
\* the permissions card without its new-player form
SpecMalformed ==
  /\ PermInit \/ RestoreInit
  /\ [][\/ \E h \in PermHassSet \cup {MalformedPermHass} : PermSetHass(h)
        \/ \E e \in Entities \cup {None} : PermHandleServerEntitySelection(e)
        \/ \E x \in PermBaselineXuids \cup PermStagedXuids, l \in {"member", "operator"} :
             PermHandlePermissionLevelChange(x, l)
        \/ PermSavePermissions
        \/ \E i \in 1..MaxInFlight : PermCallWSResolved(i) \/ PermCallWSRejected(i)
        \/ \E i \in 1..MaxInFlight : PermCallServiceResolved(i)
        \/ \E i \in 1..MaxInFlight, err \in RemoteFailures : PermCallServiceRejected(i, err)
        \/ RestoreNext
        \/ RestoreSetHass(MalformedRestoreHass)]_vars

(***************************************************************************)
(* The permissions card, its level select reporting also a level that does *)
(* not exist                                                               *)
(***************************************************************************)
SpecPermLevels ==
  PermInit /\ [][PermNext \/ PermHandleNewPlayerPermissionLevelChange("admin")]_vars

(***************************************************************************)
(* The properties card, handed also server_properties with the keys of P10 *)
(* in another order                                                        *)
(***************************************************************************)
P10Reordered ==
  Obj(<<Prop("difficulty", Str(<<"normal">>)), Prop("max-players", Str(<<"1", "0">>))>>)
ReorderedHass ==
  Hass([e \in Entities |->
          StateObj(e, Obj(<<Prop("server_properties", P10Reordered),
                            Prop("device_id", Str(<<"a", "1">>))>>), 1)],
       [e \in Entities |-> Str(<<"r", "b">>)])
SpecReordered == PropsInit /\ [][PropsNext \/ PropsSetHass(ReorderedHass)]_vars

(***************************************************************************)
(* Any one of the cards                                                    *)
(***************************************************************************)
Init ==
  \/ PropsInit \/ PermInit \/ AllowInit \/ RestoreInit \/ CategorizedInit \/ ContentInit
  \/ CommandInit \/ EventInit
Next ==
  \/ PropsNext \/ PermNext \/ AllowNext \/ RestoreNext \/ CategorizedNext \/ ContentNext
  \/ CommandNext \/ EventNext
Spec == Init /\ [][Next]_vars
\* the cards whose actions depend on an ingested type
SpecTyped ==
  /\ RestoreInit \/ CategorizedInit \/ ContentInit
  /\ [][RestoreNext \/ CategorizedNext \/ ContentNext]_vars

(***************************************************************************)
(* Claims                                                                  *)
(***************************************************************************)
\* the string a value is compared as: String(v ?? '')
Normalized(v) == JsString(IF v.t = "null" THEN Str(<<>>) ELSE v)
EditableKeys == {<<EDITABLE_PROPERTIES[i]>> : i \in 1..Len(EDITABLE_PROPERTIES)}
\* the call a step has just sent
Sends == Len(pending') = Len(pending) + 1
Sent == pending'[Len(pending')]

\* C2: every update_properties request of the properties card carries exactly
\* the editable keys whose staged value differs, string-normalized, from the
\* baseline value, each with its staged value; it is never empty and never
\* holds an unchanged key.
C2_SendsOnlyChangeSet ==
  [][(card = "properties" /\ Sends) =>
       LET properties == Member(Sent.data, "properties").o IN
         /\ Sent.service = "update_properties"
         /\ properties # <<>>
         /\ \A key \in EditableKeys :
              HasKey(properties, key) <=>
                /\ HasKey(_currentProperties, key)
                /\ HasKey(_editValues, key)
                /\ Normalized(GetKey(_currentProperties, key)) # Normalized(GetKey(_editValues, key))
         /\ \A j \in 1..Len(properties) :
              /\ properties[j].k \in EditableKeys
              /\ properties[j].v = GetKey(_editValues, properties[j].k)]_vars

\* a request is in flight that holds one key of a two-key baseline
C2_Witness ==
  /\ card = "properties"
  /\ Len(pending) = 1
  /\ pending[1].service = "update_properties"
  /\ Len(Member(pending[1].data, "properties").o) = 1
  /\ Len(_currentProperties) = 2

\* C3: a staged value whose string-normalized form equals the baseline value
\* of its key is never part of the change-set the properties card computes;
\* when every staged value equals its baseline the change-set is empty.
C3_NoOpEditExcluded ==
  card = "properties" =>
    LET changeSet == changedProperties(EDITABLE_PROPERTIES, _currentProperties, _editValues)
        same(i) == /\ HasKey(_currentProperties, _editValues[i].k)
                   /\ Normalized(GetKey(_currentProperties, _editValues[i].k))
                        = Normalized(_editValues[i].v)
    IN /\ \A i \in 1..Len(_editValues) : same(i) => ~HasKey(changeSet, _editValues[i].k)
       /\ (\A i \in 1..Len(_editValues) : same(i)) => changeSet = <<>>

\* numeric 10 is staged over the baseline "10" and the change-set is empty
C3_Witness ==
  /\ card = "properties"
  /\ GetOwn(_currentProperties, "max-players") = Str(<<"1", "0">>)
  /\ GetOwn(_editValues, "max-players") = Num(10)
  /\ changedProperties(EDITABLE_PROPERTIES, _currentProperties, _editValues) = <<>>

\* the remote call a step starts: the i-th pending call is a service call that
\* was not one before the step
Invokes(i) ==
  /\ i \in 1..Len(pending')
  /\ pending'[i].kind = "service"
  /\ Len(pending') >= Len(pending)
  /\ (i > Len(pending) \/ pending[i].kind # "service")
\* the remote call a step completes
Completes(i) == i \in 1..Len(pending) /\ pending' = Without(pending, i)
\* a lookup yields a non-empty string
Yields(deviceId) == IsStr(deviceId) /\ deviceId.s # <<>>
\* a lookup yields a non-empty trimmed string
YieldsTrimmed(deviceId) == IsStr(deviceId) /\ Trim(deviceId.s) # <<>>
AttributeDeviceId(h, e) == Member(StateOf(h, e).attributes, "device_id")
SensorBackedCards == {"allowlist", "properties", "permissions", "restore"}

\* C1: in the allowlist, properties, permissions and restore cards a remote
\* action is started only while the registry entry or the device_id attribute
\* of the selected sensor yields a non-empty string.
C1_UnresolvedNeverInvokes ==
  [][\A i \in 1..MaxInFlight :
       (card \in SensorBackedCards /\ Invokes(i)) =>
         \/ Yields(RegistryDeviceId(hass, selected))
         \/ Yields(AttributeDeviceId(hass, selected))]_vars

\* C11: when the registry yields no non-empty trimmed device id and the
\* device_id attribute of the selected sensor is a non-empty string, saving in
\* the properties card resolves to the trimmed attribute value and sends its
\* request with it as device_id, and in the permissions card the completion of
\* the registry lookup starts set_permissions with it as device_id.
C11_AttributeFallbackProceeds ==
  [][LET attribute == AttributeDeviceId(hass, selected)
         fallsBack == /\ hass.defined /\ selected # None
                      /\ ~YieldsTrimmed(RegistryDeviceId(hass, selected))
                      /\ YieldsTrimmed(attribute)
     IN /\ (card = "properties" /\ fallsBack) =>
             /\ PropsGetTargetDeviceId = Str(Trim(attribute.s))
             /\ Sends => Member(Sent.data, "device_id") = Str(Trim(attribute.s))
        /\ \A i \in 1..MaxInFlight :
             (/\ card = "permissions" /\ fallsBack
              /\ i \in 1..Len(pending) /\ pending[i].kind = "ws" /\ pending' # pending) =>
               /\ Invokes(i)
               /\ Member(pending'[i].data, "device_id") = Str(Trim(attribute.s))]_vars

\* the candidate list of the revision at hand, the attribute its ingestion
\* reads, and the shape a candidate's value must have
CandidatesOfRevision ==
  IF card = "restore-categorized" THEN CategorizedCandidates ELSE BACKUP_LIST_ATTRIBUTE_CANDIDATES
ListAttributeNameOfRevision(stateObj) ==
  IF card = "restore-categorized" THEN CategorizedListAttributeName(stateObj)
  ELSE RestoreListAttributeName(stateObj)
PassesShape(attributes, key) ==
  \/ Member(attributes, key).t = "arr"
  \/ card = "restore-categorized" /\ key = "backups" /\ Member(attributes, key).t = "obj"
Swapped(candidates, i, j) == [candidates EXCEPT ![i] = candidates[j], ![j] = candidates[i]]

\* C12: while the selected sensor is present with attributes, the attribute
\* the restore card ingests is the first key of the ordered candidate list whose
\* value has the list shape ("" when none has), the ingested list is that
\* attribute's valid file names alone, and swapping two candidates that do not
\* match leaves the pick unchanged.
C12_FirstCandidateWins ==
  (/\ card \in RestoreCards /\ hass.defined /\ selected # None
   /\ StateOf(hass, selected) # Absent /\ StateOf(hass, selected).attributes.t = "obj") =>
    LET stateObj == StateOf(hass, selected)
        attributes == stateObj.attributes
        candidates == CandidatesOfRevision
        passing == {i \in 1..Len(candidates) : PassesShape(attributes, candidates[i])}
        chosen == ListAttributeNameOfRevision(stateObj)
    IN /\ chosen = IF passing = {} THEN ""
                   ELSE candidates[CHOOSE i \in passing : \A j \in passing : i <= j]
       /\ (chosen # "" /\ Member(attributes, chosen).t = "arr") =>
            _availableBackups = Sort(SelectSeq(Member(attributes, chosen).o, IsFileName), TRUE)
       /\ \A i, j \in (1..Len(candidates)) \ passing :
            FirstCandidate(attributes, Swapped(candidates, i, j), FALSE)
              = FirstCandidate(attributes, candidates, FALSE)


\* the type an ingestion of the selected sensor determines
DeterminedTypeOfRevision(stateObj) ==
  IF card = "restore-categorized" THEN CategorizedDeterminedBackupType(stateObj)
  ELSE IF card = "restore" THEN RestoreDeterminedBackupType(stateObj)
  ELSE ContentDeterminedInstallType(stateObj)
TypeDependentServices == {"restore_backup", "install_world", "install_addon"}

\* C13: while the selected sensor's attributes do not determine a type, the
\* ingested backup or install type is the unknown sentinel or null; no
\* restore_backup, install_world or install_addon is started while the ingested
\* type is the sentinel or null, none carries the sentinel as restore_type,
\* install_world starts only for type world and install_addon only for type
\* addon.
C13_UnknownTypeNeverActs ==
  [][/\ (/\ card \in RestoreCards \cup {"content"} /\ hass.defined /\ selected # None
         /\ StateOf(hass, selected) # Absent /\ StateOf(hass, selected).attributes.t = "obj"
         /\ DeterminedTypeOfRevision(StateOf(hass, selected)) = Unknown) =>
          (IF card = "content" THEN _installType ELSE _backupType) \in {Unknown, Null}
     /\ \A i \in 1..MaxInFlight :
          (Invokes(i) /\ pending'[i].service \in TypeDependentServices) =>
            /\ card \in RestoreCards =>
                 /\ _backupType \notin {Unknown, Null}
                 /\ Member(pending'[i].data, "restore_type") \notin {Unknown, Null}
            /\ pending'[i].service = "install_world" => _installType = World
            /\ pending'[i].service = "install_addon" => _installType = Addon]_vars

\* a sensor whose type could not be determined is ingested with files and a
\* target device, and nothing is in flight
C13_Witness ==
  /\ card \in RestoreCards
  /\ _backupType = Unknown
  /\ _selectedBackupFile # <<>>
  /\ Truthy(_targetDeviceId)
  /\ ~_isLoading /\ ~IsSet(_error)
  /\ pending = <<>>


\* the restore type a category key of the dictionary stands for
RestoreTypeOfCategory(category) ==
  Str(IF EndsWith(category, BackupsKeySuffix)
        THEN DropLast(category, Len(BackupsKeySuffix)) ELSE category)
\* the <<category key, file name>> pairs of a categorized dictionary
CategorizedFiles(dictionary) ==
  UNION {{<<dictionary.o[c].k, dictionary.o[c].v.o[f].s>> :
            f \in {f \in 1..Len(dictionary.o[c].v.o) : IsFileName(dictionary.o[c].v.o[f])}} :
         c \in {c \in 1..Len(dictionary.o) : dictionary.o[c].v.t = "arr"}}
EntryOf(pair) == DisplayCategory(pair[1]) \o CategorySeparator \o pair[2]

\* C14: while the selected sensor of the categorized revision holds a backups
\* dictionary, every valid file of every category is in the combined list as
\* "<Category>: <file>", that entry decomposes into the category's restore type
\* and the file name as it was, and a restore_backup started for a selected
\* entry carries exactly that restore_type and backup_file.
C14_CategorizedEntryDecomposes ==
  [][(/\ card = "restore-categorized" /\ hass.defined /\ selected # None
      /\ StateOf(hass, selected) # Absent
      /\ Member(StateOf(hass, selected).attributes, "backups").t = "obj") =>
       LET files == CategorizedFiles(Member(StateOf(hass, selected).attributes, "backups"))
       IN /\ \A pair \in files :
               /\ \E e \in 1..Len(_availableBackups) : _availableBackups[e].s = EntryOf(pair)
               /\ ServiceRestoreType(EntryOf(pair)) = RestoreTypeOfCategory(pair[1])
               /\ ServiceBackupFile(EntryOf(pair)) = pair[2]
          /\ \A i \in 1..MaxInFlight :
               (Invokes(i) /\ pending'[i].service = "restore_backup") =>
                 \E pair \in files :
                   /\ _selectedBackupFile = EntryOf(pair)
                   /\ Member(pending'[i].data, "restore_type") = RestoreTypeOfCategory(pair[1])
                   /\ Member(pending'[i].data, "backup_file") = Str(pair[2])]_vars


\* the selected sensor is in the host's states before the step and not after
Disappears ==
  /\ hass.defined /\ hass'.defined /\ selected # None
  /\ StateOf(hass, selected) # Absent
  /\ StateOf(hass', selected) = Absent

\* C15: the host update in which the selected sensor disappears leaves the
\* card with an error message, without ingested data and staged edits, and
\* with its mutating actions unavailable.
C15_DisappearanceResets ==
  [][Disappears =>
       /\ IsSet(_error')
       /\ card = "properties" =>
            _currentProperties' = <<>> /\ _editValues' = <<>> /\ ~canDisplayProperties'
       /\ card = "permissions" =>
            _currentServerPermissions' = <<>> /\ _editData' = <<>> /\ ~canSave'
       /\ card = "allowlist" => _currentAllowlist' = <<>> /\ ~AllowSectionShown'
       /\ card \in RestoreCards =>
            /\ _availableBackups' = <<>> /\ _selectedBackupFile' = <<>>
            /\ ~canRestoreSelected' /\ ~canRestoreLatestAll'
       /\ card = "content" =>
            /\ _availableFilesForInstall' = <<>> /\ _selectedFileToInstall' = <<>>
            /\ ~isInstallPossible']_vars

\* the sensor has disappeared from under a card that held ingested data: the
\* error names it and the data is gone
C15_Witness ==
  /\ card = "properties"
  /\ hass.defined /\ selected # None /\ StateOf(hass, selected) = Absent
  /\ _error = <<"Selected sensor ", selected, " is no longer available.">>
  /\ _currentProperties = <<>>


\* a remote action fails: the catch block of the handler awaiting it runs
RemoteActionFails ==
  \E i \in 1..MaxInFlight, err \in RemoteFailures \cup CommandFailures :
    \/ PropsCallServiceRejected(i, err)
    \/ PermCallServiceRejected(i, err)
    \/ AllowCallServiceRejected(i, err)
    \/ RestoreCallServiceRejected(i, err)
    \/ ContentCallServiceRejected(i, err)
    \/ CommandCallServiceRejected(i, err)
    \/ EventCallServiceRejected(i, err)
\* the selection, the baselines and everything the user has staged or typed
LocalState ==
  <<selected, config, _currentProperties, _editValues, _currentServerPermissions, _editData,
    _globalPlayers, _newPlayerSelectedXUID, _newPlayerManualXUID, _newPlayerManualName,
    _newPlayerPermissionLevel, _currentAllowlist, _newPlayerName, _addIgnoresLimit,
    _availableBackups, _selectedBackupFile, _backupType, _availableFilesForInstall,
    _selectedFileToInstall, _installType, _selectedTargetServerDeviceId, _selectedDeviceId,
    _commandText, _eventName, _eventPayload>>

\* C16, as stated: when a remote action fails, the baseline and the staged
\* input are what they were when the action was invoked; so a failed
\* properties save leaves the change set it was invoked with, and a failed send
\* the command it was invoked with.
C16_AsWhenInvoked ==
  [][\A i \in 1..MaxInFlight, err \in RemoteFailures \cup CommandFailures :
       /\ PropsCallServiceRejected(i, err) =>
            changedProperties(EDITABLE_PROPERTIES, _currentProperties', _editValues')
              = pending[i].keep.o
       /\ CommandCallServiceRejected(i, err) =>
            Str(Trim(_commandText')) = Member(pending[i].data, "command")]_vars

\* C16, amended: the step in which a remote action fails leaves the baseline
\* and the user's staged input (staged edits, typed command text, new-player
\* name) as they were just before it: the failure only sets the error and ends
\* the loading state.  What the host hands the card while the action is in
\* flight may still have changed them since the action was invoked.
C16_FailureKeepsLocalState == [][RemoteActionFails => UNCHANGED LocalState]_vars
\* a properties save has failed and the staged edits are still there
C16_Witness ==
  /\ card = "properties" /\ ~_isLoading
  /\ changedProperties(EDITABLE_PROPERTIES, _currentProperties, _editValues) # <<>>
  /\ _error = <<"Error: ", "b", "o", "o", "m">>

\* render(): the Save Changes button of the properties card and the Add
\* button of the allowlist card are shown and enabled
SaveOffered == card = "properties" /\ hass.defined /\ hasChanges /\ ~_isLoading
AddOffered ==
  /\ card = "allowlist" /\ hass.defined /\ AllowSectionShown
  /\ Trim(_newPlayerName) # <<>> /\ ~AllowIncludes(_currentAllowlist, Trim(_newPlayerName))

\* C17: when a save or an add fails and leaves the card idle with the staged
\* input still there and the selection as it was, the control that commits the
\* input is shown and enabled, so that the user can trigger the action again.
C17_RetryOffered ==
  [][\A i \in 1..MaxInFlight, err \in RemoteFailures :
       /\ (/\ PropsCallServiceRejected(i, err)
           /\ hass.defined /\ ~_isLoading'
           /\ changedProperties(EDITABLE_PROPERTIES, _currentProperties', _editValues') # <<>>)
            => SaveOffered'
       /\ (/\ AllowCallServiceRejected(i, err)
           /\ pending[i].service = "add_to_allowlist"
           /\ hass.defined /\ ~_isLoading'
           /\ Trim(_newPlayerName') # <<>>
           /\ ~AllowIncludes(_currentAllowlist', Trim(_newPlayerName')))
            => AddOffered']_vars

\* the XUID the Stage This Player button is about to stage
XuidToAdd ==
  IF _newPlayerSelectedXUID # <<>> THEN _newPlayerSelectedXUID ELSE _newPlayerManualXUID
\* that XUID already has an entry in the baseline or in the overlay
Collides == XuidToAdd \in PermBaselineXuids \/ HasKey(_editData, XuidToAdd)

\* C18: staging a new player whose XUID is already in the baseline permissions
\* or in the overlay leaves the overlay as it is and shows an error that names
\* the XUID.
C18_CollidingStageRejected ==
  [][((PermStageNewPlayerPermission \/ EarlyStageNewPlayerPermission) /\ Collides) =>
       /\ _editData' = _editData
       /\ IsSet(_error')
       /\ \E i \in 1..Len(_error') : _error'[i] = Head(XuidToAdd)]_vars
\* a colliding XUID has been turned down
C18_Witness ==
  /\ card = "permissions"
  /\ _newPlayerManualXUID # <<>>
  /\ _newPlayerManualXUID \in PermBaselineXuids \cup PermStagedXuids
  /\ _error = <<"Player with XUID ">> \o _newPlayerManualXUID \o
               <<" already has permissions defined or staged for this server. Edit the existing entry instead.">>

\* C19: add_to_allowlist is invoked only when the trimmed name typed is not
\* empty and not in the ingested allowlist, and then with `players` being
\* exactly that one name; when the add handler runs with an empty or a
\* duplicate name it sets an error and invokes nothing.
C19_AddSendsOneNewName ==
  [][LET playerName == Trim(_newPlayerName) IN
       /\ \A i \in 1..MaxInFlight :
            (Invokes(i) /\ pending'[i].service = "add_to_allowlist") =>
              /\ playerName # <<>>
              /\ ~AllowIncludes(_currentAllowlist, playerName)
              /\ Member(pending'[i].data, "players") = Arr(<<Str(playerName)>>)
       /\ (/\ AllowAddPlayer \/ AllowAddPlayerUnrendered
           /\ playerName = <<>> \/ AllowIncludes(_currentAllowlist, playerName))
            => IsSet(_error') /\ pending' = pending]_vars
\* "Bo" is being added to an allowlist that holds "Al"
C19_Witness ==
  /\ card = "allowlist"
  /\ _currentAllowlist = A1.o
  /\ \E i \in 1..Len(pending) :
       /\ pending[i].service = "add_to_allowlist"
       /\ Member(pending[i].data, "players") = Arr(<<Str(<<"B", "o">>)>>)
\* a duplicate name has been turned down
C19_WitnessRejected ==
  /\ card = "allowlist"
  /\ AllowIncludes(_currentAllowlist, Trim(_newPlayerName))
  /\ _error = <<"'">> \o Trim(_newPlayerName) \o <<"' is already on the allowlist.">>
  /\ pending = <<>>

\* the text JSON.parse accepts
IsJson(text) == JsonParse(text).ok

\* C20: trigger_plugin_event is never invoked with a blank event name or with
\* a payload that is not blank and not valid JSON, and send_command never with
\* a blank command or without a selected device; when the handler of a
\* configured card runs on such input it sets an error and invokes nothing.
C20_InvalidInputNeverSent ==
  [][LET blankName == Trim(_eventName) = <<>>
         badPayload == Trim(_eventPayload) # <<>> /\ ~IsJson(_eventPayload)
         blankCommand == Trim(_commandText) = <<>>
         noDevice == ~Truthy(_selectedDeviceId)
     IN /\ \A i \in 1..MaxInFlight :
             /\ (Invokes(i) /\ pending'[i].service = "trigger_plugin_event") =>
                  /\ ~blankName /\ ~badPayload
                  /\ Trim(Member(pending'[i].data, "event_name").s) # <<>>
             /\ (Invokes(i) /\ pending'[i].service = "send_command") =>
                  /\ ~blankCommand /\ ~noDevice
                  /\ Member(pending'[i].data, "command").s # <<>>
                  /\ Truthy(Member(pending'[i].data, "device_id"))
        /\ (/\ EventTriggerEvent \/ EventTriggerEventUnrendered
            /\ config # Null
            /\ blankName \/ badPayload)
             => IsSet(_error') /\ pending' = pending
        /\ (/\ CommandSendCommand \/ CommandSendCommandUnrendered
            /\ blankCommand \/ noDevice)
             => IsSet(_error') /\ pending' = pending]_vars
\* a payload that is not JSON has been turned down
C20_Witness ==
  /\ card = "event"
  /\ Trim(_eventName) # <<>>
  /\ Trim(_eventPayload) # <<>> /\ ~IsJson(_eventPayload)
  /\ _error = <<"Invalid JSON in payload: ">> \o JsonSyntaxErrorMessage
  /\ pending = <<>>

\* C4: the permissions map of a set_permissions request holds no player whose
\* staged level equals the level that player has in the ingested baseline.
C4_BaselineLevelNotSent ==
  [][\A i \in 1..MaxInFlight :
       (card = "permissions" /\ Invokes(i)) =>
         LET permissions == Member(pending'[i].data, "permissions").o
         IN \A j \in 1..Len(_currentServerPermissions) :
              LET xuid == Member(_currentServerPermissions[j], "xuid").s
              IN HasKey(permissions, xuid) =>
                   GetKey(permissions, xuid)
                     # Member(_currentServerPermissions[j], "permission_level")]_vars

\* the fields a card derives from its selection, and its messages
SelectionState ==
  <<_error, _feedback, propsVars, permVars, allowVars, restoreVars, contentVars>>

\* C5: the completion of a remote call that was started under another
\* selection than the present one changes neither the messages nor any field
\* of the card.
C5_StaleCompletionIgnored ==
  [][\A i \in 1..MaxInFlight :
       (Completes(i) /\ pending[i].sel # selected) => UNCHANGED SelectionState]_vars

\* C6: when a host update replaces the baseline, every staged edit of a key
\* the new baseline still has stays staged with its value.
C6_EditsSurviveNewSnapshot ==
  [][(hass' # hass /\ selected' = selected) =>
       /\ (card = "properties" /\ _currentProperties' # _currentProperties) =>
            \A key \in EditableKeys :
              (/\ HasKey(_currentProperties, key) /\ HasKey(_editValues, key)
               /\ Normalized(GetKey(_editValues, key)) # Normalized(GetKey(_currentProperties, key))
               /\ HasKey(_currentProperties', key))
                => /\ HasKey(_editValues', key)
                   /\ GetKey(_editValues', key) = GetKey(_editValues, key)
       /\ (card = "permissions" /\ _currentServerPermissions' # _currentServerPermissions) =>
            \A j \in 1..Len(_currentServerPermissions') :
              LET xuid == Member(_currentServerPermissions'[j], "xuid").s
              IN HasKey(_editData, xuid) =>
                   /\ HasKey(_editData', xuid)
                   /\ GetKey(_editData', xuid) = GetKey(_editData, xuid)]_vars

\* the domain attribute of the selected sensor in a host object
DomainAttribute(h) ==
  Coalesce(Member(StateOf(h, selected).attributes,
                  IF card = "properties" THEN "server_properties" ELSE "server_permissions"),
           Null)

\* C7: a host update in which the selected sensor's server_properties (or
\* server_permissions) attribute serializes as it did in the host object
\* ingested before leaves the baseline and the staged edits of the properties
\* (or permissions) card as they are.
C7_SameAttributeNoReingest ==
  [][(/\ card \in {"properties", "permissions"}
      /\ hass' # hass /\ hass'.defined
      /\ selected # None
      /\ StateOf(hass, selected) # Absent /\ StateOf(hass', selected) # Absent
      /\ StateOf(hass, selected).attributes.t = "obj"
      /\ StateOf(hass', selected).attributes.t = "obj"
      /\ Stringify(DomainAttribute(hass')) = Stringify(DomainAttribute(hass)))
       => UNCHANGED <<_currentProperties, _editValues, _currentServerPermissions, _editData>>]_vars

\* the selected sensor is at its second revision, its attribute as before,
\* and a level differing from the baseline is staged
C7_Witness ==
  /\ card = "permissions"
  /\ selected = "sensor.a"
  /\ hass.defined /\ StateOf(hass, selected).rev = 2
  /\ DomainAttribute(hass) = L1
  /\ _currentServerPermissions = L1.o
  /\ _editData = <<KeyedProp(<<"1">>, Str(<<"operator">>))>>

\* the messages a completed remote action leaves
IsSuccessMessage(msg) ==
  /\ IsSet(msg)
  /\ \/ msg[1] \in {"Properties update requested. Changes will reflect after the next server poll or restart.",
                    "Permissions update successfully requested. The list will refresh automatically when the server reports the changes.",
                    "Request sent to add '", "Request sent to remove '",
                    "Latest full backup restore requested.", "Operation successful."}
     \/ msg[Len(msg)] = "' requested."
     \/ \E j \in 1..Len(msg) : msg[j] = "' installation successfully requested for device "

\* C8: a card is never loading while an error is set, and never holds a
\* success message together with an error message.
C8_OneActiveState ==
  /\ ~(_isLoading /\ IsSet(_error))
  /\ ~(IsSuccessMessage(_feedback) /\ IsSet(_error))

\* C9: at most one remote action is in flight; while it is, the card is
\* loading and none of its controls that start a remote action is enabled.
C9_OneActionInFlight ==
  /\ Len(pending) <= 1
  /\ Len(pending) = 1 =>
       /\ _isLoading
       /\ card = "properties" => ~(hasChanges /\ ~_isLoading)
       /\ card = "permissions" => ~canSave
       /\ card = "allowlist" => ~AllowSectionShown
       /\ card = "restore" => ~canRestoreSelected /\ ~canRestoreLatestAll
       /\ card = "content" => ~(isInstallPossible /\ ~_isLoading)

\* a restore is in flight
C9_Witness ==
  card = "restore" /\ Len(pending) = 1 /\ pending[1].service = "restore_backup"

\* the registry's device id when it yields a non-empty trimmed string, else the
\* attribute's when that does, else null
RegistryFirst(h, e) ==
  IF YieldsTrimmed(RegistryDeviceId(h, e)) THEN Str(Trim(RegistryDeviceId(h, e).s))
  ELSE IF YieldsTrimmed(AttributeDeviceId(h, e)) THEN Str(Trim(AttributeDeviceId(h, e).s))
  ELSE Null
\* the attribute's device id when it yields a non-empty trimmed string, else
\* the registry's when that does, else null
AttributeFirst(h, e) ==
  IF YieldsTrimmed(AttributeDeviceId(h, e)) THEN Str(Trim(AttributeDeviceId(h, e).s))
  ELSE IF YieldsTrimmed(RegistryDeviceId(h, e)) THEN Str(Trim(RegistryDeviceId(h, e).s))
  ELSE Null

\* C10, as stated: whenever the registry yields a non-empty trimmed device id
\* for the selected sensor, the allowlist and properties cards send their
\* requests to that device, and the restore card resolves to it when it ingests
\* the sensor's attributes.
C10_RegistryFirstEverywhere ==
  [][/\ \A i \in 1..MaxInFlight :
          (card \in {"allowlist", "properties"} /\ Invokes(i)
           /\ YieldsTrimmed(RegistryDeviceId(hass, selected)))
            => Member(pending'[i].data, "device_id") = Str(Trim(RegistryDeviceId(hass, selected).s))
     /\ (card = "restore" /\ _targetDeviceId' # _targetDeviceId
         /\ StateOf(hass', selected').attributes.t = "obj"
         /\ YieldsTrimmed(RegistryDeviceId(hass', selected')))
          => _targetDeviceId' = Str(Trim(RegistryDeviceId(hass', selected').s))]_vars

\* C10, amended: the properties card sends its requests to, and the restore
\* card when it ingests the sensor's attributes resolves to, the registry's
\* device id when that is a
\* non-empty trimmed string and to the attribute's only otherwise; the
\* allowlist card sends its requests to the attribute's device id when that is
\* a non-empty trimmed string and to the registry's only otherwise.
C10_RegistryFirstButAllowlist ==
  [][/\ \A i \in 1..MaxInFlight :
          /\ (card = "properties" /\ Invokes(i))
               => Member(pending'[i].data, "device_id") = RegistryFirst(hass, selected)
          /\ (card = "allowlist" /\ Invokes(i))
               => Member(pending'[i].data, "device_id") = AttributeFirst(hass, selected)
     /\ (card = "restore" /\ _targetDeviceId' # _targetDeviceId
         /\ StateOf(hass', selected').attributes.t = "obj")
          => _targetDeviceId' = RegistryFirst(hass', selected')]_vars

\* a properties request is in flight, sent to the registry's device while the
\* attribute names another one
C10_Witness ==
  /\ card = "properties"
  /\ Len(pending) = 1
  /\ Member(pending[1].data, "device_id") = Str(<<"r", "1">>)
  /\ AttributeDeviceId(hass, selected) = Str(<<"a", "1">>)
  /\ RegistryDeviceId(hass, selected) = Str(<<" ", "r", "1", " ">>)

\* the message a failure carries, and whether a displayed message contains it
CarriedMessage(err) ==
  IF err.t \in {"error", "str"} THEN err.s
  ELSE IF HasOwn(err.o, "error") THEN Member(err, "error").s
  ELSE Member(err, "message").s
Contains(msg, part) ==
  \E i \in 0..(Len(msg) - Len(part)) : SubSeq(msg, i + 1, i + Len(part)) = part

\* C21: when a remote call of the allowlist, command or event trigger card
\* fails with a typed error, an object with an `error` field, an object with a
\* `message` field or a plain string, the card is left idle with an error that
\* contains the message the failure carries.
C21_ErrorCarriesMessage ==
  [][\A i \in 1..MaxInFlight, err \in FailureShapes :
       (\/ AllowCallServiceRejected(i, err)
        \/ CommandCallServiceRejected(i, err)
        \/ EventCallServiceRejected(i, err))
         => IsSet(_error') /\ Contains(_error', CarriedMessage(err))]_vars

\* a step that ingests the selected sensor's state object: the object at hand
\* is there and is not the one the card looked at before
Ingests ==
  /\ hass'.defined /\ selected' # None
  /\ StateOf(hass', selected') # Absent
  /\ StateOf(hass', selected') # StateOf(hass, selected)
\* no candidate key of the card yields a list, and the keys the card checks
NoUsableList(stateObj) ==
  /\ stateObj.attributes.t = "obj"
  /\ (IF card = "content" THEN ContentListAttributeName(stateObj)
      ELSE ListAttributeNameOfRevision(stateObj)) = ""
CheckedCandidates ==
  IF card = "content" THEN CONTENT_LIST_ATTRIBUTE_CANDIDATES ELSE CandidatesOfRevision
Names(msg, key) == \E i \in 1..Len(msg) : msg[i] = key
\* the error state an ingestion without a list leaves: nothing listed, nothing
\* selected, no type, and an error naming every candidate key
IngestionError ==
  /\ (IF card = "content" THEN _availableFilesForInstall' ELSE _availableBackups') = <<>>
  /\ (IF card = "content" THEN _selectedFileToInstall' ELSE _selectedBackupFile') = <<>>
  /\ (IF card = "content" THEN _installType' ELSE _backupType') = Null
  /\ IsSet(_error')
  /\ \A k \in 1..Len(CheckedCandidates) : Names(_error', CheckedCandidates[k])

\* C22: when the restore card (either revision) or the content card ingests a
\* sensor none of whose candidate attributes yields a list, it is left with an
\* empty list, no selected file, no type and an error message that names every
\* candidate key that was checked.
C22_NoListNamesCandidates ==
  [][(card \in RestoreCards \cup {"content"} /\ Ingests
      /\ NoUsableList(StateOf(hass', selected'))) => IngestionError]_vars
\* the same of the restore card's revisions alone
C22_RestoreOnly ==
  [][(card \in RestoreCards /\ Ingests
      /\ NoUsableList(StateOf(hass', selected'))) => IngestionError]_vars

\* C23: when the permissions card ingests a selected sensor that has
\* attributes but whose server_permissions is missing or not an array, it is
\* left showing an error; the attribute is never shown as an empty permissions
\* list without one.
C23_InvalidPermissionsShowError ==
  [][(/\ card = "permissions" /\ Ingests
      /\ StateOf(hass', selected').attributes.t = "obj"
      /\ Member(StateOf(hass', selected').attributes, "server_permissions").t # "arr")
       => IsSet(_error')]_vars

\* well-formed entries: a permission record with an XUID and an existing level,
\* a player record with an XUID and a name, a file name that is a string with
\* something in it
NonBlankString(v) == v.t = "str" /\ Trim(v.s) # <<>>
WellFormedPermission(p) ==
  /\ p.t = "obj" /\ NonBlankString(Member(p, "xuid"))
  /\ Member(p, "permission_level") \in {Str(<<"visitor">>), Str(<<"member">>), Str(<<"operator">>)}
WellFormedPlayer(p) ==
  p.t = "obj" /\ NonBlankString(Member(p, "xuid")) /\ NonBlankString(Member(p, "name"))
\* two sequences hold the same items the same number of times
SameItems(a, b) ==
  /\ Len(a) = Len(b)
  /\ \A i \in 1..Len(a) :
       Cardinality({j \in 1..Len(a) : a[j] = a[i]}) = Cardinality({j \in 1..Len(b) : b[j] = a[i]})
GlobalPlayersIngested ==
  /\ hass'.defined
  /\ StateOf(hass', GlobalPlayersEntity) # Absent
  /\ StateOf(hass', GlobalPlayersEntity) # StateOf(hass, GlobalPlayersEntity)

\* C24: when the permissions card ingests a server_permissions array or a
\* global_players_list array, or the restore card a backup list array, the
\* ingested list holds exactly the well-formed entries of the array (all of
\* them, and for server_permissions in their order), and the step raises no
\* error.
C24_MalformedEntriesDropped ==
  [][/\ (/\ card = "permissions" /\ Ingests
         /\ Member(StateOf(hass', selected').attributes, "server_permissions").t = "arr") =>
          /\ _currentServerPermissions'
               = SelectSeq(Member(StateOf(hass', selected').attributes, "server_permissions").o,
                           WellFormedPermission)
          /\ _error' \in {NoMsg, _error}
     /\ (/\ card = "permissions" /\ GlobalPlayersIngested
         /\ Member(StateOf(hass', GlobalPlayersEntity).attributes, "global_players_list").t = "arr") =>
          SameItems(_globalPlayers',
                    SelectSeq(Member(StateOf(hass', GlobalPlayersEntity).attributes,
                                     "global_players_list").o, WellFormedPlayer))
     /\ (/\ card = "restore" /\ Ingests
         /\ StateOf(hass', selected').attributes.t = "obj"
         /\ RestoreListAttributeName(StateOf(hass', selected')) # "") =>
          /\ SameItems(_availableBackups',
                       SelectSeq(Member(StateOf(hass', selected').attributes,
                                        RestoreListAttributeName(StateOf(hass', selected'))).o,
                                 NonBlankString))
          /\ _error' = NoMsg]_vars

\* the permissions card lists the two valid records and the two valid players
\* of lists that hold malformed entries as well
C24_Witness ==
  /\ card = "permissions" /\ selected = "sensor.a"
  /\ Member(StateOf(hass, selected).attributes, "server_permissions") = MalformedPermissions
  /\ _currentServerPermissions = <<PermEntry(<<"1">>, "operator"), PermEntry(<<"7">>, "visitor")>>
  /\ Len(_globalPlayers) = 2 /\ Member(_globalPlayers[1], "name") = Str(<<"a", "l">>)
  /\ ~IsSet(_error)
\* the restore card lists the two file names of a list that holds other items
C24_WitnessFiles ==
  /\ card = "restore"
  /\ Member(StateOf(hass, selected).attributes, "world_backups_list") = MalformedBackups
  /\ _availableBackups = <<W2, W1>>
  /\ ~IsSet(_error)

\* a step in which the user selects another source, or none
SelectsAnother == selected' # selected /\ hass' = hass
\* what a card that holds nothing yet ingests from the newly selected sensor
RebuiltProperties ==
  IF selected' = None \/ StateOf(hass', selected') = Absent
    THEN PropsFields(<<>>, <<>>, NoMsg, NoMsg)
    ELSE _loadProperties(StateOf(hass', selected'), PropsFields(<<>>, <<>>, NoMsg, NoMsg))
RebuiltPermissions ==
  IF selected' = None \/ StateOf(hass', selected') = Absent
    THEN PermFields(selected', <<>>, <<>>, NoMsg, NoMsg, _globalPlayers)
    ELSE _loadServerPermissions(StateOf(hass', selected'),
                                PermFields(selected', <<>>, <<>>, NoMsg, NoMsg, _globalPlayers))
RebuiltBackups ==
  IF selected' = None \/ StateOf(hass', selected') = Absent
    THEN RestoreFields(selected', Null, Null, <<>>, <<>>, Null, NoMsg, NoMsg)
    ELSE _processSelectedSensor(StateOf(hass', selected'), hass',
                                RestoreFields(selected', Null, Null, <<>>, <<>>, Null, NoMsg, NoMsg))
\* the baseline, staged edits, listed files, picked file, type and target
\* after the step are the rebuilt ones
RebuiltFromNewSource ==
  /\ card = "properties" =>
       /\ _currentProperties' = RebuiltProperties.cur
       /\ _editValues' = RebuiltProperties.edit
  /\ card = "permissions" =>
       /\ _currentServerPermissions' = RebuiltPermissions.cur
       /\ _editData' = <<>>
  /\ card = "restore" =>
       /\ _availableBackups' = RebuiltBackups.list
       /\ _selectedBackupFile' = RebuiltBackups.file
       /\ _backupType' = RebuiltBackups.type
       /\ _targetDeviceId' = RebuiltBackups.dev
       /\ _serverDisplayName' = RebuiltBackups.name
\* the new-player form of the permissions card is as constructed
NewPlayerFormCleared ==
  /\ _newPlayerSelectedXUID' = <<>>
  /\ _newPlayerManualXUID' = <<>>
  /\ _newPlayerManualName' = <<>>
  /\ _newPlayerPermissionLevel' = <<"visitor">>

\* C25: when the user selects another source or none in the properties,
\* permissions or restore card, the baseline, the staged edits, the resolved
\* target and the pending input are rebuilt: they are what a card holding
\* nothing ingests from the newly selected sensor of the current host object,
\* and nothing typed or picked under the previous source remains.
C25_SelectionRebuildsEverything ==
  [][(card \in {"properties", "permissions", "restore"} /\ SelectsAnother) =>
       /\ RebuiltFromNewSource
       /\ card = "permissions" => NewPlayerFormCleared]_vars
\* the same without the new-player form of the permissions card
C25_ButNewPlayerForm ==
  [][(card \in {"properties", "permissions", "restore"} /\ SelectsAnother) =>
       RebuiltFromNewSource]_vars

\* the baselines of the cards: the values last ingested from the host object
Baselines ==
  <<_currentProperties, _currentServerPermissions, _currentAllowlist, _availableBackups,
    _availableFilesForInstall>>

\* C26: the completion of a remote call, successful or not, leaves the
\* baseline of the card as it was last ingested from the host object.
C26_CompletionKeepsBaseline ==
  [][\A i \in 1..MaxInFlight : Completes(i) => UNCHANGED Baselines]_vars

\* the options services.yaml declares for restore_type
RestoreTypeOptions == {World, AllowlistType, PermissionsType, PropertiesType}

\* C27: every restore_backup request of the restore card (either revision)
\* carries a restore_type that is one of world, allowlist, permissions,
\* properties.
C27_RestoreTypeDeclared ==
  [][\A i \in 1..MaxInFlight :
       (card \in RestoreCards /\ Invokes(i) /\ pending'[i].service = "restore_backup") =>
         Member(pending'[i].data, "restore_type") \in RestoreTypeOptions]_vars

\* the levels set_permissions documents
PermissionLevels == {Str(<<"visitor">>), Str(<<"member">>), Str(<<"operator">>)}
LevelsOf(props) == {props[k].v : k \in 1..Len(props)}

\* C28: every set_permissions request of the permissions card maps each XUID
\* to one of visitor, member, operator, and so does the staged overlay after
\* every step.
C28_OnlyValidLevelsSent ==
  [][/\ LevelsOf(_editData') \subseteq PermissionLevels
     /\ \A i \in 1..MaxInFlight :
          (card = "permissions" /\ Invokes(i) /\ pending'[i].service = "set_permissions") =>
            /\ Member(pending'[i].data, "permissions").t = "obj"
            /\ LevelsOf(Member(pending'[i].data, "permissions").o) \subseteq PermissionLevels]_vars

\* a set_permissions request with a staged level is in flight while the
\* new-player form holds a level that does not exist
C28_Witness ==
  /\ card = "permissions"
  /\ \E i \in 1..Len(pending) :
       /\ pending[i].service = "set_permissions"
       /\ Len(Member(pending[i].data, "permissions").o) > 0
  /\ _newPlayerPermissionLevel = <<"admin">>
\* staging with a level that does not exist was refused
C28_WitnessRefused ==
  /\ card = "permissions"
  /\ _error = <<"Invalid permission level selected.">>
  /\ _newPlayerPermissionLevel = <<"admin">>

\* the registry lookup of a pressed Save is awaiting its answer
LookupPending == \E i \in 1..Len(pending) : pending[i].kind = "ws"

\* C29: the overlay is not empty when Save is pressed, stays what it was
\* while the registry lookup of the save is awaited, and is what the
\* set_permissions request then carries: the request holds exactly the overlay
\* staged at the press and is never empty, whatever host updates arrive in
\* between.
C29_SendsOverlayAsPressed ==
  [][card = "permissions" =>
       /\ (~LookupPending /\ LookupPending') => _editData # <<>> /\ _editData' = _editData
       /\ (LookupPending /\ LookupPending') => _editData' = _editData
       /\ \A i \in 1..MaxInFlight :
            (Invokes(i) /\ pending'[i].service = "set_permissions") =>
              /\ Member(pending'[i].data, "permissions") = Obj(_editData)
              /\ _editData # <<>>]_vars

\* the content card shows a confirmation, no error, and is not loading
ContentSucceeded == _feedback # NoMsg /\ _error = NoMsg /\ ~_isLoading

\* something reached the card between the install request and its completion
DisturbedInFlight ==
  /\ card = "content" /\ pending # <<>>
  /\ \/ _installType.t = "null"
     \/ _error # NoMsg
     \/ pending[1].data # Obj(<<Prop("device_id", _selectedTargetServerDeviceId),
                                Prop("filename", Str(_selectedFileToInstall))>>)

\* C30: when the install call resolves, the content card ends with a
\* confirmation and no error message, whatever host updates or source
\* selections reached it while the call was in flight
C30_ResolvedInstallSucceeds ==
  [][\A i \in 1..MaxInFlight : ContentCallServiceResolved(i) => ContentSucceeded']_vars

\* the same, for installs that nothing disturbed while in flight
C30_Undisturbed ==
  [][\A i \in 1..MaxInFlight :
       (ContentCallServiceResolved(i) /\ ~DisturbedInFlight) => ContentSucceeded']_vars

\* the success message of an install request sent with the given data
InstalledMessage(type, data) ==
  Capitalize(type.s) \o <<" file '">> \o Member(data, "filename").s
    \o <<"' installation successfully requested for device ">>
    \o JsString(Member(data, "device_id")) \o <<".">>

\* C31: when an install request of the content card resolves and the card
\* shows its success message, the message names the file and the device that
\* the request was sent with, whatever target, source or file the user chose
\* while the request was in flight
C31_SuccessNamesWhatWasSent ==
  [][\A i \in 1..MaxInFlight :
       (ContentCallServiceResolved(i) /\ _error' = NoMsg) =>
         _feedback' = InstalledMessage(_installType, pending[i].data)]_vars

\* the same, for installs during which the target and the file stayed as sent
C31_WhenLeftAlone ==
  [][\A i \in 1..MaxInFlight :
       (/\ ContentCallServiceResolved(i) /\ _error' = NoMsg
        /\ Member(pending[i].data, "device_id") = _selectedTargetServerDeviceId
        /\ Member(pending[i].data, "filename") = Str(_selectedFileToInstall)) =>
         _feedback' = InstalledMessage(_installType, pending[i].data)]_vars

\* the Save Changes button of the properties card is shown and enabled, in
\* the current and in the earlier revision
SaveEnabled ==
  card = "properties" /\ hass.defined /\ canDisplayProperties /\ hasChanges /\ ~_isLoading
EarlySaveEnabled ==
  card = "properties-early" /\ hass.defined /\ EarlyPropsHasChanges /\ ~_isLoading
NoChangesDetected == <<"No changes detected to save.">>
SendsChanges ==
  pending' # pending =>
    /\ pending'[Len(pending')].service = "update_properties"
    /\ Member(pending'[Len(pending')].data, "properties").t = "obj"
    /\ Member(pending'[Len(pending')].data, "properties").o # <<>>

\* C32: in the properties card, whenever Save Changes is enabled the
\* change-set _saveProperties computes is not empty; pressing it never ends in
\* "No changes detected to save.", and the request it sends carries a
\* non-empty properties map
C32_EnabledSaveHasChanges ==
  [][/\ SaveEnabled =>
          changedProperties(EDITABLE_PROPERTIES, _currentProperties, _editValues) # <<>>
     /\ EarlySaveEnabled =>
          EarlyPropsChangedProperties(EDITABLE_PROPERTIES, _currentProperties, _editValues)
            # <<>>
     /\ (PropsSaveProperties \/ EarlyPropsSaveProperties) =>
          _error' # NoChangesDetected /\ SendsChanges]_vars

\* Save Changes was pressed with a staged value whose text equals the
\* baseline's beside one that differs, and the request left
C32_Witness ==
  /\ card = "properties" /\ _isLoading /\ pending # <<>>
  /\ \E i \in 1..Len(EDITABLE_PROPERTIES) :
       /\ HasOwn(_editValues, EDITABLE_PROPERTIES[i])
       /\ GetOwn(_editValues, EDITABLE_PROPERTIES[i]).t = "num"
       /\ ~HasOwn(Member(pending[1].data, "properties").o, EDITABLE_PROPERTIES[i])
  /\ Member(pending[1].data, "properties").o # <<>>

\* the host settles a pending call of the permissions, properties or event
\* trigger card: the call resolves or rejects
Settle ==
  \E i \in 1..MaxInFlight :
    \/ PermCallWSResolved(i) \/ PermCallWSRejected(i) \/ PermCallServiceResolved(i)
    \/ PropsCallServiceResolved(i) \/ EventCallServiceResolved(i)
    \/ \E err \in RemoteFailures :
         \/ PermCallServiceRejected(i, err)
         \/ PropsCallServiceRejected(i, err)
         \/ EventCallServiceRejected(i, err)
\* the registry lookup of the permissions card hands over to the service call
HandsOver ==
  /\ card = "permissions" /\ Len(pending') = Len(pending)
  /\ \E i \in 1..Len(pending) : pending[i].kind = "ws" /\ pending'[i].kind = "service"

\* the three cards, with every pending call settled sooner or later by the host
SpecSettling ==
  /\ PermInit \/ PropsInit \/ EventInit
  /\ [][PermNext \/ PropsNext \/ EventNext]_vars
  /\ WF_vars(Settle)

C33_EveryCard ==
  [][(\E i \in 1..MaxInFlight : Completes(i)) => ~_isLoading']_vars

\* the selected backup file of the restore card is one of the listed files,
\* or empty when nothing is listed
SelectedBackupListed ==
  IF _availableBackups = <<>> THEN _selectedBackupFile = <<>>
  ELSE \E k \in 1..Len(_availableBackups) : _availableBackups[k].s = _selectedBackupFile

\* C34: in the restore card the selected backup file is always one of the
\* files of the ingested backup list (empty when the list is empty), and the
\* file a restore_backup request names is in the list at the time it is sent
C34_SelectedFileIsListed ==
  /\ [](card = "restore" => SelectedBackupListed)
  /\ [][\A i \in 1..MaxInFlight :
          (card = "restore" /\ Invokes(i) /\ pending'[i].service = "restore_backup") =>
            \E k \in 1..Len(_availableBackups) :
              Str(_availableBackups[k].s) = Member(pending'[i].data, "backup_file")]_vars

\* a host update replaced a list of which the user had picked a later file,
\* and a restore of the file selected afterwards was requested
C34_Witness ==
  /\ card = "restore" /\ pending # <<>> /\ pending[1].service = "restore_backup"
  /\ Len(_availableBackups) > 1
  /\ Member(pending[1].data, "backup_file") = Str(_availableBackups[2].s)

\* the restore card shows the message of a completed action: the confirmation
\* of a resolved call or the error of a rejected one
CompletionMessageShown ==
  /\ ~_isLoading
  /\ \/ IsSet(_feedback) /\ _feedback[Len(_feedback)] \in
          {"' requested.", "Latest full backup restore requested.", "Operation successful."}
     \/ IsSet(_error) /\ _error[1] = "Error: "
\* a host update that leaves the ingested list, the type and the target alone
QuietHostUpdate ==
  /\ hass' # hass
  /\ UNCHANGED <<selected, _availableBackups, _backupType, _targetDeviceId>>

\* C35: in the restore card, a host update that leaves the ingested backup
\* list, the backup type and the resolved target unchanged does not erase the
\* confirmation or error message of a completed action
C35_MessageSurvivesQuietUpdate ==
  [][(card = "restore" /\ CompletionMessageShown /\ QuietHostUpdate) =>
       UNCHANGED <<_error, _feedback>>]_vars

\* the same, for host updates that hand over the very state object of the
\* selected sensor with the attributes it had
C35_SameStateObject ==
  [][(/\ card = "restore" /\ CompletionMessageShown /\ QuietHostUpdate
      /\ StateOf(hass', selected) = StateOf(hass, selected)) =>
       UNCHANGED <<_error, _feedback>>]_vars

\* the list of files a card ingested and the file selected in it
IngestedFiles == IF card = "content" THEN _availableFilesForInstall ELSE _availableBackups
SelectedFile == IF card = "content" THEN _selectedFileToInstall ELSE _selectedBackupFile
\* a host update changes the ingested list, and the changed list still holds
\* the file the user had selected
ListChangesAroundSelection ==
  /\ card \in {"restore", "content"}
  /\ hass' # hass /\ selected' = selected
  /\ IngestedFiles' # IngestedFiles
  /\ SelectedFile # <<>>
  /\ \E k \in 1..Len(IngestedFiles') : IngestedFiles'[k].s = SelectedFile

\* C36: when a host update changes the ingested file list of the restore or
\* content card and the new list still contains the selected file, the
\* selection is kept
C36_SelectionSurvivesListChange ==
  [][ListChangesAroundSelection => SelectedFile' = SelectedFile]_vars

\* what the cards do instead: the first file of the changed list is selected
C36_FirstOfChangedList ==
  [][ListChangesAroundSelection => SelectedFile' = IngestedFiles'[1].s]_vars

\* the content card after the user cleared the source selector: no source, no
\* error (a source that disappeared leaves an error), and a host object, which
\* the selector needs to be rendered
ClearedSelection == card = "content" /\ selected = None /\ ~IsSet(_error)
UserDeselected == ClearedSelection /\ hass.defined
ContentDeselected ==
  selected = None /\ _availableFilesForInstall = <<>> /\ _installType = Null

\* C37: after the user deselected the content source, a host update leaves
\* the content card deselected, with no ingested list and no type
C37_StaysDeselected ==
  [][(UserDeselected /\ hass' # hass /\ config' = config) => ContentDeselected']_vars

\* a card configured with a source gets into that state by the user clearing
\* the selector and by nothing else
C37_OnlyUserDeselects ==
  [][(ConfigSensor(config') # None /\ ~ClearedSelection /\ ClearedSelection') =>
       (hass' = hass /\ config' = config /\ selected # None)]_vars

\* the same as C37, for cards whose configuration names no source
C37_WithoutConfiguredSource ==
  [][(UserDeselected /\ ConfigSensor(config) = None /\ hass' # hass /\ config' = config) =>
       ContentDeselected']_vars

\* the key/value pairs of an object, whatever their order
Pairs(props) == {props[k] : k \in 1..Len(props)}
\* a host update reports, for the selected sensor, server_properties with the
\* key/value pairs it had before in another order
ReportsReordered ==
  LET new == Member(StateOf(hass', selected).attributes, "server_properties")
      old == Member(StateOf(hass, selected).attributes, "server_properties")
  IN /\ card = "properties" /\ selected # None /\ selected' = selected
     /\ new.t = "obj" /\ old.t = "obj"
     /\ new # old /\ Pairs(new.o) = Pairs(old.o)

\* C38: a host update whose server_properties holds the same key/value pairs
\* in another key order leaves the baseline and the staged edits of the
\* properties card as they were
C38_KeyOrderIrrelevant ==
  [][ReportsReordered =>
       /\ Pairs(_currentProperties') = Pairs(_currentProperties)
       /\ Pairs(_editValues') = Pairs(_editValues)]_vars

\* the baseline alone keeps its key/value pairs
C38_BaselinePairsKept ==
  [][(ReportsReordered /\ Pairs(_currentProperties) = Pairs(Member(StateOf(hass, selected).attributes, "server_properties").o)) =>
       Pairs(_currentProperties') = Pairs(_currentProperties)]_vars

====
